---- MODULE Spec2Model ----
(***************************************************************************)
(* Offline verification pipeline of the inji-offline-app SDK:              *)
(*   cache/utils/CacheHelper.ts      the three cache tables                *)
(*   cache/utils/AsyncStorageStore   readJson / writeJson                  *)
(*   utils/NetworkUtils.ts           connectivity, OfflineDocumentLoader,  *)
(*                                   PublicKeyGetterFactory                *)
(*   publicKey/PublicKeyService.ts   getPublicKey                          *)
(*   verifiers/LdpVerifier.ts        verify / verifySingleProof /          *)
(*                                   verifyWithSuite                       *)
(* JavaScript values are encoded with one TLA+ type per field: strings     *)
(* carry "undefined" / "null" for the absent values, booleans that may be  *)
(* absent are the strings "true" / "false" / "undefined".  Record          *)
(* constructors list their fields in the order TLC keeps them in, which    *)
(* is the order of first appearance of the names in this module.           *)
(***************************************************************************)
EXTENDS Integers, Sequences, FiniteSets, TLC

\* ------------------------------------------------------------------ bounds
MaxProofs == 2      \* longest proof array of a credential under verification
MaxBatch == 2       \* longest record batch handed to a put / replace call

\* ------------------------------------------------------- JavaScript values
Undef == "undefined"
JsNull == "null"

Nullish(x) == x \in {Undef, JsNull}

Falsy(x) == x \in {Undef, JsNull, ""}

\* a ?? b
Coalesce(a, b) == IF Nullish(a) THEN b ELSE a

\* the value null / undefined where a record is expected
NoRec == [null |-> TRUE]

NoJwk == [x |-> Undef, kty |-> Undef, crv |-> Undef]

\* ------------------------------------------------------------- identifiers
\* A verification-method identifier <scheme>:<body>#<frag>.
NoVm == [scheme |-> "", body |-> "", frag |-> ""]

VmWeb == [scheme |-> "did:web", body |-> "issuer.example", frag |-> "key-1"]

VmKey == [scheme |-> "did:key", body |-> "z6Mk1", frag |-> "z6Mk1"]

VmIon == [scheme |-> "did:ion", body |-> "abc", frag |-> "k"]

KeyIds == {VmWeb, VmKey, VmIon}

\* s.split('#')[0]
SplitHash0(s) == [s EXCEPT !.frag = ""]

\* s.startsWith(prefix), for the prefixes the code tests
StartsWith(s, prefix) ==
  CASE prefix = "http" -> s.scheme \in {"http", "https"}
    [] OTHER -> s.scheme = prefix

Urls == {"https://ctx/1", "https://ctx/2"}

\* urls for which url.startsWith('did:') holds
DidUrls == {"did:web:issuer.example"}

VcIds == {"vc-1", "vc-2"}

Orgs == {"org-1", "org-2"}

\* values returned by Date.now()
Times == {1, 2}

\* ------------------------------------------------- storage (readJson / writeJson)
EmptyStore(ids) == [id \in ids |-> NoRec]

\* readJson: a failed or empty read yields the fallback {}
readJson(persisted, readOk) ==
  IF readOk THEN persisted ELSE [id \in DOMAIN persisted |-> NoRec]

\* writeJson: a failed setItem is logged and swallowed
writeJson(persisted, value, writeOk) ==
  IF writeOk THEN value ELSE persisted

IoOk == [readOk |-> TRUE, writeOk |-> TRUE]

IoReadFails == [readOk |-> FALSE, writeOk |-> TRUE]

IoWriteFails == [readOk |-> TRUE, writeOk |-> FALSE]

IoModes == {IoOk, IoReadFails, IoWriteFails}

\* ---------------------------------------------------------- context table
\* putContexts: the loop body for one supplied context
PutContextRecord(c, now) ==
  [url |-> c.url, document |-> c.document, cachedAt |-> now,
   source |-> "prime", organization_id |-> Coalesce(c.organization_id, JsNull)]

RECURSIVE PutContextsLoop(_, _, _, _)
PutContextsLoop(store, cs, i, now) ==
  IF i > Len(cs) THEN store
  ELSE IF Falsy(cs[i].url) THEN PutContextsLoop(store, cs, i + 1, now)
  ELSE PutContextsLoop([store EXCEPT ![cs[i].url] = PutContextRecord(cs[i], now)],
                       cs, i + 1, now)

\* putContexts(contexts): result is the persisted table and whether it threw
putContexts(persisted, cs, now, io) ==
  IF Len(cs) = 0 THEN [table |-> persisted, threw |-> FALSE]
  ELSE [table |-> writeJson(persisted,
                            PutContextsLoop(readJson(persisted, io.readOk), cs, 1, now),
                            io.writeOk),
        threw |-> FALSE]

ReplaceContextRecord(c, organizationId, now) ==
  [url |-> c.url, document |-> c.document, cachedAt |-> now,
   source |-> "org-sync", organization_id |-> organizationId]

RECURSIVE ReplaceContextsLoop(_, _, _, _, _)
ReplaceContextsLoop(store, cs, i, organizationId, now) ==
  IF i > Len(cs) THEN store
  ELSE IF Falsy(cs[i].url) THEN ReplaceContextsLoop(store, cs, i + 1, organizationId, now)
  ELSE ReplaceContextsLoop(
         [store EXCEPT ![cs[i].url] = ReplaceContextRecord(cs[i], organizationId, now)],
         cs, i + 1, organizationId, now)

\* the delete loop leaving after the first record it removed
DeleteOrgNullable_FirstOnly(store, organizationId) ==
  LET hits == {id \in DOMAIN store :
                 store[id] # NoRec /\ Coalesce(store[id].organization_id, JsNull) = organizationId}
  IN  IF hits = {} THEN store
      ELSE [store EXCEPT ![CHOOSE id \in hits : TRUE] = NoRec]

\* the delete loop of a replace*ForOrganization with the ?? null comparison
DeleteOrgNullable(store, organizationId) ==
  [id \in DOMAIN store |->
     IF store[id] # NoRec /\ Coalesce(store[id].organization_id, JsNull) = organizationId
     THEN NoRec ELSE store[id]]

replaceContextsForOrganization(persisted, organizationId, cs, now, io) ==
  [table |-> writeJson(persisted,
                       ReplaceContextsLoop(
                         DeleteOrgNullable(readJson(persisted, io.readOk), organizationId),
                         cs, 1, organizationId, now),
                       io.writeOk),
   threw |-> FALSE]

\* getContext(url): store[url]?.document ?? null
getContext(persisted, url, io) ==
  LET store == readJson(persisted, io.readOk)
  IN  IF store[url] = NoRec THEN JsNull ELSE Coalesce(store[url].document, JsNull)

clearContextStore(persisted, io) == writeJson(persisted, EmptyStore(DOMAIN persisted), io.writeOk)

\* ------------------------------------------------------- public-key table
\* the record putPublicKeys / replacePublicKeysForOrganization build from one input
StoredKeyRecord(k) ==
  [organization_id |-> Coalesce(k.organization_id, JsNull), key_id |-> k.key_id,
   key_type |-> Coalesce(k.key_type, "Ed25519VerificationKey2020"),
   public_key_multibase |-> k.public_key_multibase, public_key_hex |-> k.public_key_hex,
   public_key_jwk |-> k.public_key_jwk, controller |-> SplitHash0(k.controller),
   purpose |-> Coalesce(k.purpose, "assertion"),
   is_active |-> Coalesce(k.is_active, "true")]

\* !k.key_id || !k.controller
KeyInvalid(k) == k.key_id = NoVm \/ k.controller = NoVm

RECURSIVE PutPublicKeysLoop(_, _, _)
\* the loop keeping the encodings of the record already stored when the
\* supplied one omits them
PutPublicKeysLoop_Merge(store, ks, i) ==
  IF i > Len(ks) THEN [store |-> store, threw |-> FALSE]
  ELSE IF KeyInvalid(ks[i]) THEN [store |-> store, threw |-> TRUE]
  ELSE IF store[ks[i].key_id] = NoRec
  THEN PutPublicKeysLoop([store EXCEPT ![ks[i].key_id] = StoredKeyRecord(ks[i])], ks, i + 1)
  ELSE PutPublicKeysLoop(
         [store EXCEPT ![ks[i].key_id] =
            [StoredKeyRecord(ks[i]) EXCEPT
               !.public_key_multibase =
                  Coalesce(ks[i].public_key_multibase, store[ks[i].key_id].public_key_multibase)]],
         ks, i + 1)

\* the for loop of putPublicKeys; threw = the validation error was raised
PutPublicKeysLoop(store, ks, i) ==
  IF i > Len(ks) THEN [store |-> store, threw |-> FALSE]
  ELSE IF KeyInvalid(ks[i]) THEN [store |-> store, threw |-> TRUE]
  ELSE PutPublicKeysLoop([store EXCEPT ![ks[i].key_id] = StoredKeyRecord(ks[i])], ks, i + 1)

\* putPublicKeys saving what its loop stored before the validation error
putPublicKeys_SavesBeforeThrow(persisted, ks, io) ==
  IF Len(ks) = 0 THEN [table |-> persisted, threw |-> FALSE]
  ELSE LET r == PutPublicKeysLoop(readJson(persisted, io.readOk), ks, 1)
       IN  [table |-> writeJson(persisted, r.store, io.writeOk), threw |-> r.threw]

putPublicKeys(persisted, ks, io) ==
  IF Len(ks) = 0 THEN [table |-> persisted, threw |-> FALSE]
  ELSE LET r == PutPublicKeysLoop(readJson(persisted, io.readOk), ks, 1)
       IN  IF r.threw THEN [table |-> persisted, threw |-> TRUE]
           ELSE [table |-> writeJson(persisted, r.store, io.writeOk), threw |-> FALSE]

RECURSIVE ReplacePublicKeysLoop(_, _, _)
ReplacePublicKeysLoop(store, ks, i) ==
  IF i > Len(ks) THEN store
  ELSE IF KeyInvalid(ks[i]) THEN ReplacePublicKeysLoop(store, ks, i + 1)
  ELSE ReplacePublicKeysLoop([store EXCEPT ![ks[i].key_id] = StoredKeyRecord(ks[i])], ks, i + 1)

replacePublicKeysForOrganization(persisted, organizationId, ks, io) ==
  [table |-> writeJson(persisted,
                       ReplacePublicKeysLoop(
                         DeleteOrgNullable(readJson(persisted, io.readOk), organizationId),
                         ks, 1),
                       io.writeOk),
   threw |-> FALSE]

\* getKeyById(keyId): store[keyId] ?? null
getKeyById(persisted, keyId, io) == readJson(persisted, io.readOk)[keyId]

clearPublicKeyStore(persisted, io) == writeJson(persisted, EmptyStore(DOMAIN persisted), io.writeOk)

\* -------------------------------------------------------- revoked-VC table
StoredRevokedRecord(vc) ==
  [organization_id |-> vc.organization_id, vc_id |-> vc.vc_id, issuer |-> vc.issuer,
   subject |-> Coalesce(vc.subject, Undef), reason |-> Coalesce(vc.reason, Undef),
   revoked_at |-> vc.revoked_at]

\* !vc.vc_id || !vc.issuer
RevokedInvalid(vc) == Falsy(vc.vc_id) \/ Falsy(vc.issuer)

RECURSIVE PutRevokedVCsLoop(_, _, _)
PutRevokedVCsLoop(store, vcs, i) ==
  IF i > Len(vcs) THEN [store |-> store, threw |-> FALSE]
  ELSE IF RevokedInvalid(vcs[i]) THEN [store |-> store, threw |-> TRUE]
  ELSE PutRevokedVCsLoop([store EXCEPT ![vcs[i].vc_id] = StoredRevokedRecord(vcs[i])],
                         vcs, i + 1)

putRevokedVCs(persisted, vcs, io) ==
  IF Len(vcs) = 0 THEN [table |-> persisted, threw |-> FALSE]
  ELSE LET r == PutRevokedVCsLoop(readJson(persisted, io.readOk), vcs, 1)
       IN  IF r.threw THEN [table |-> persisted, threw |-> TRUE]
           ELSE [table |-> writeJson(persisted, r.store, io.writeOk), threw |-> FALSE]

\* the delete loop of replaceRevokedVCsForOrganization (strict comparison)
DeleteOrgStrict(store, organizationId) ==
  [id \in DOMAIN store |->
     IF store[id] # NoRec /\ store[id].organization_id = organizationId
     THEN NoRec ELSE store[id]]

RECURSIVE ReplaceRevokedLoop(_, _, _)
\* store[revoked.vc_id] = {...revoked, subject, reason}: no validation, and a
\* record without vc_id lands under the key "undefined", outside every vc id
ReplaceRevokedLoop(store, vcs, i) ==
  IF i > Len(vcs) THEN store
  ELSE IF vcs[i].vc_id \notin DOMAIN store THEN ReplaceRevokedLoop(store, vcs, i + 1)
  ELSE ReplaceRevokedLoop([store EXCEPT ![vcs[i].vc_id] = StoredRevokedRecord(vcs[i])],
                          vcs, i + 1)

replaceRevokedVCsForOrganization(persisted, organizationId, vcs, io) ==
  [table |-> writeJson(persisted,
                       ReplaceRevokedLoop(
                         DeleteOrgStrict(readJson(persisted, io.readOk), organizationId),
                         vcs, 1),
                       io.writeOk),
   threw |-> FALSE]

\* isVCRevoked(vcId): !!store[vcId]
isVCRevoked(persisted, vcId, io) == readJson(persisted, io.readOk)[vcId] # NoRec

clearRevokedVCStore(persisted, io) == writeJson(persisted, EmptyStore(DOMAIN persisted), io.writeOk)

\* ------------------------------------------------------------ connectivity
\* navigator.onLine: "true", "false", or "undefined" when navigator or the
\* flag is missing.  hasFetch: typeof fetch === 'function'.
OnLineValues == {"true", "false", Undef}

\* the flag read as offline unless it is true
isExplicitlyOffline_UnlessTrue(onLine) == onLine # "true"

isExplicitlyOffline(onLine) == onLine = "false"

\* canPerformNetworkRequest without the navigator.onLine test
canPerformNetworkRequest_IgnoresOnLine(onLine, hasFetch) == hasFetch

canPerformNetworkRequest(onLine, hasFetch) ==
  IF ~hasFetch THEN FALSE
  ELSE IF onLine \in {"true", "false"} THEN onLine # "false"
  ELSE TRUE

\* ------------------------------------------------- key encodings (publicKey/Utils)
\* Raw Ed25519 public keys are the numbers of RawKeys; 0 stands for "the
\* conversion throws".
RawKeys == {1, 2}

ed25519RawToMultibase(raw) == CASE raw = 1 -> "z6Mk1" [] raw = 2 -> "z6Mk2" [] OTHER -> Undef

decodeDidKeyMultibaseEd25519(mb) == CASE mb = "z6Mk1" -> 1 [] mb = "z6Mk2" -> 2 [] OTHER -> 0

base64UrlDecode(x) == CASE x = "eDE" -> 1 [] x = "eDI" -> 2 [] OTHER -> 0

\* hex string -> bytes (an SPKI structure or something else)
hexToBytes(h) ==
  CASE h = "302a...01" -> "spki:1" [] h = "302a...02" -> "spki:2"
    [] h = "04ab" -> "ec:point" [] OTHER -> "bytes:?"

bytesToHex(b) ==
  CASE b = "spki:1" -> "302a...01" [] b = "spki:2" -> "302a...02"
    [] b = "ec:point" -> "04ab" [] OTHER -> "00"

spkiToRawEd25519(b) == CASE b = "spki:1" -> 1 [] b = "spki:2" -> 2 [] OTHER -> 0

rawToSpki(raw) == CASE raw = 1 -> "spki:1" [] raw = 2 -> "spki:2" [] OTHER -> Undef

parsePemToDer(pem) ==
  CASE pem = "PEM ed25519 1" -> "spki:1" [] pem = "PEM rsa" -> "der:rsa" [] OTHER -> "bytes:?"

\* key_type.includes('Ed25519')
IncludesEd25519(keyType) ==
  keyType \in {"Ed25519VerificationKey2020", "Ed25519VerificationKey2018"}

JwkEd1 == [x |-> "eDE", kty |-> "OKP", crv |-> "Ed25519"]

JwkEc == [x |-> "eDI", kty |-> "EC", crv |-> "secp256k1"]

\* ------------------------------------------------- online getters (PublicKeyData)
\* threw = the getter raised; the other fields are those getPublicKey reads.
PkThrew ==
  [threw |-> TRUE, pem |-> Undef, keyType |-> Undef, algorithm |-> Undef, bytes |-> Undef,
   jwk |-> NoJwk, ecUncompressedHex |-> Undef]

getPublicKeyFromPem(pem, type) ==
  LET der == parsePemToDer(pem)
  IN  [threw |-> FALSE, pem |-> pem, keyType |-> type,
       algorithm |-> IF spkiToRawEd25519(der) # 0 THEN "Ed25519" ELSE "RSA", bytes |-> der,
       jwk |-> NoJwk, ecUncompressedHex |-> Undef]

getPublicKeyFromMultibaseEd25519(mb, type) ==
  LET raw == decodeDidKeyMultibaseEd25519(mb)
  IN  IF raw = 0 THEN PkThrew
      ELSE [threw |-> FALSE, pem |-> Undef, keyType |-> type, algorithm |-> "Ed25519",
            bytes |-> rawToSpki(raw), jwk |-> NoJwk, ecUncompressedHex |-> Undef]

getPublicKeyFromJwk(jwk, type) ==
  [threw |-> FALSE, pem |-> Undef, keyType |-> type,
   algorithm |-> IF jwk.crv = "Ed25519" THEN "Ed25519" ELSE jwk.crv, bytes |-> Undef,
   jwk |-> jwk, ecUncompressedHex |-> Undef]

getPublicKeyFromHex(hex, type) ==
  [threw |-> FALSE, pem |-> Undef, keyType |-> type, algorithm |-> "secp256k1",
   bytes |-> hexToBytes(hex), jwk |-> NoJwk, ecUncompressedHex |-> hex]

\* What the network serves for a DID document: the verification-method entry
\* whose id equals the requested one, "missing" when the document has no such
\* entry, "unreachable" when the fetch fails.
VmEntry(type, pem, mb, jwk, hex) ==
  [type |-> type, state |-> "found", publicKeyPem |-> pem, publicKeyMultibase |-> mb,
   publicKeyJwk |-> jwk, publicKeyHex |-> hex]

NetUnreachable == [VmEntry(Undef, Undef, Undef, NoJwk, Undef) EXCEPT !.state = "unreachable"]

NetMissing == [VmEntry(Undef, Undef, Undef, NoJwk, Undef) EXCEPT !.state = "missing"]

NetMultibase1 == VmEntry("Ed25519VerificationKey2020", Undef, "z6Mk1", NoJwk, Undef)

NetJwk1 == VmEntry("JsonWebKey2020", Undef, Undef, JwkEd1, Undef)

NetPemRsa == VmEntry("RsaVerificationKey2018", "PEM rsa", Undef, NoJwk, Undef)

\* the extraction trying multibase before PEM
DidWebPublicKeyGetter_MultibaseFirst(verificationMethod, net) ==
  IF net.state # "found" THEN PkThrew
  ELSE IF ~Falsy(net.publicKeyMultibase)
       THEN getPublicKeyFromMultibaseEd25519(net.publicKeyMultibase, net.type)
  ELSE IF ~Falsy(net.publicKeyPem) THEN getPublicKeyFromPem(net.publicKeyPem, net.type)
  ELSE IF net.publicKeyJwk # NoJwk THEN getPublicKeyFromJwk(net.publicKeyJwk, net.type)
  ELSE IF ~Falsy(net.publicKeyHex) THEN getPublicKeyFromHex(net.publicKeyHex, net.type)
  ELSE PkThrew

\* DidWebPublicKeyGetter.get
DidWebPublicKeyGetter(verificationMethod, net) ==
  IF net.state # "found" THEN PkThrew
  ELSE IF ~Falsy(net.publicKeyPem) THEN getPublicKeyFromPem(net.publicKeyPem, net.type)
  ELSE IF ~Falsy(net.publicKeyMultibase)
       THEN getPublicKeyFromMultibaseEd25519(net.publicKeyMultibase, net.type)
  ELSE IF net.publicKeyJwk # NoJwk THEN getPublicKeyFromJwk(net.publicKeyJwk, net.type)
  ELSE IF ~Falsy(net.publicKeyHex) THEN getPublicKeyFromHex(net.publicKeyHex, net.type)
  ELSE PkThrew

\* DidKeyPublicKeyGetter.get
DidKeyPublicKeyGetter(verificationMethod) ==
  LET mb == SplitHash0(verificationMethod).body
  IN  IF Falsy(mb) THEN PkThrew
      ELSE getPublicKeyFromMultibaseEd25519(mb, "Ed25519VerificationKey2020")

\* DidJwkPublicKeyGetter.get: decodes the JWK embedded in the identifier
DidJwkPublicKeyGetter(verificationMethod) ==
  IF SplitHash0(verificationMethod).body = "eyJ4IjoiZURFIn0"
  THEN getPublicKeyFromJwk(JwkEd1, "JsonWebKey2020")
  ELSE PkThrew

\* HttpsPublicKeyGetter.get: fetches the document and extracts as did:web does
HttpsPublicKeyGetter(verificationMethod, net) == DidWebPublicKeyGetter(verificationMethod, net)

\* PublicKeyGetterFactory.get; invoked = a scheme-specific getter was called
PublicKeyGetterFactory(verificationMethod, net) ==
  IF StartsWith(verificationMethod, "did:web")
    THEN [pk |-> DidWebPublicKeyGetter(verificationMethod, net), invoked |-> TRUE]
  ELSE IF StartsWith(verificationMethod, "did:key")
    THEN [pk |-> DidKeyPublicKeyGetter(verificationMethod), invoked |-> TRUE]
  ELSE IF StartsWith(verificationMethod, "did:jwk")
    THEN [pk |-> DidJwkPublicKeyGetter(verificationMethod), invoked |-> TRUE]
  ELSE IF StartsWith(verificationMethod, "http")
    THEN [pk |-> HttpsPublicKeyGetter(verificationMethod, net), invoked |-> TRUE]
  ELSE [pk |-> PkThrew, invoked |-> FALSE]

\* ------------------------------------------------------ PublicKeyService
isIncomplete(rec) ==
  rec = NoRec \/ (Falsy(rec.public_key_multibase) /\ rec.public_key_jwk = NoJwk
                  /\ Falsy(rec.public_key_hex))

\* lines 23-64: the encodings getPublicKey derives from the getter's result
FetchedMultibase(verificationMethod, pk) ==
  LET controller == SplitHash0(verificationMethod)
      fromDidKey == IF StartsWith(controller, "did:key") THEN controller.body ELSE Undef
      jwk == pk.jwk
      fromBytes == IF ~Falsy(pk.bytes) /\ spkiToRawEd25519(pk.bytes) # 0
                   THEN ed25519RawToMultibase(spkiToRawEd25519(pk.bytes)) ELSE Undef
      fromPem == IF ~Falsy(pk.pem) /\ spkiToRawEd25519(parsePemToDer(pk.pem)) # 0
                 THEN ed25519RawToMultibase(spkiToRawEd25519(parsePemToDer(pk.pem)))
                 ELSE Undef
      fromJwk == IF jwk.kty = "OKP" /\ jwk.crv = "Ed25519" /\ ~Falsy(jwk.x)
                    /\ base64UrlDecode(jwk.x) # 0
                 THEN ed25519RawToMultibase(base64UrlDecode(jwk.x)) ELSE Undef
  IN  IF ~Falsy(fromDidKey) THEN fromDidKey
      ELSE IF pk.algorithm # "Ed25519" THEN Undef
      ELSE IF ~Falsy(fromBytes) THEN fromBytes
      ELSE IF ~Falsy(fromPem) THEN fromPem
      ELSE fromJwk

FetchedHex(pk) ==
  IF ~Falsy(pk.ecUncompressedHex) THEN pk.ecUncompressedHex
  ELSE IF ~Falsy(pk.bytes) /\ pk.algorithm = "secp256k1" THEN bytesToHex(pk.bytes)
  ELSE Undef

\* the record handed to putPublicKeys by the online fallback (lines 66-78)
FetchedKeyInput(verificationMethod, pk) ==
  [organization_id |-> JsNull, key_id |-> verificationMethod, key_type |-> pk.keyType,
   public_key_multibase |-> FetchedMultibase(verificationMethod, pk),
   public_key_hex |-> FetchedHex(pk), public_key_jwk |-> pk.jwk,
   controller |-> SplitHash0(verificationMethod), purpose |-> "assertion",
   is_active |-> "true"]

\* deriveEd25519Multibase(record)
deriveEd25519Multibase(record) ==
  LET jwk == record.public_key_jwk
  IN  IF jwk.kty = "OKP" /\ jwk.crv = "Ed25519" /\ ~Falsy(jwk.x)
      THEN ed25519RawToMultibase(base64UrlDecode(jwk.x))
      ELSE IF record.public_key_hex # Undef
      THEN ed25519RawToMultibase(spkiToRawEd25519(hexToBytes(record.public_key_hex)))
      ELSE Undef

\* the backfill handing over the fixed values of the online fallback for
\* organization_id and is_active
BackfillKeyInput_AsFetched(record, derivedMultibase) ==
  [organization_id |-> JsNull, key_id |-> record.key_id,
   key_type |-> record.key_type, public_key_multibase |-> derivedMultibase,
   public_key_hex |-> record.public_key_hex, public_key_jwk |-> record.public_key_jwk,
   controller |-> record.controller, purpose |-> "assertion", is_active |-> "true"]

\* the record handed to putPublicKeys by the backfill (lines 106-118)
BackfillKeyInput(record, derivedMultibase) ==
  [organization_id |-> Coalesce(record.organization_id, JsNull), key_id |-> record.key_id,
   key_type |-> record.key_type, public_key_multibase |-> derivedMultibase,
   public_key_hex |-> record.public_key_hex, public_key_jwk |-> record.public_key_jwk,
   controller |-> record.controller, purpose |-> Coalesce(record.purpose, "assertion"),
   is_active |-> Coalesce(record.is_active, "true")]

\* the key view returned to the verifier (lines 126-133)
KeyView(record) ==
  [id |-> record.key_id, controller |-> record.controller,
   type |-> Coalesce(record.key_type, "Ed25519VerificationKey2020"),
   publicKeyMultibase |-> record.public_key_multibase,
   publicKeyJwk |-> record.public_key_jwk, publicKeyHex |-> record.public_key_hex]

\* Result of getPublicKey: key = the view or NoRec for null; table = the key
\* table afterwards; fetched = an online getter was invoked; puts = number
\* of putPublicKeys calls made.
GpkResult(key, table, lookedOnline, fetched, puts) ==
  [table |-> table, key |-> key, lookedOnline |-> lookedOnline, fetched |-> fetched,
   puts |-> puts]

\* lines 103-123: the backfill of a derived multibase, when there is one
GetPublicKeyBackfill(persisted, record, derivedMultibase, io, lookedOnline, fetched, puts) ==
  IF Falsy(derivedMultibase)
  THEN GpkResult(KeyView(record), persisted, lookedOnline, fetched, puts)
  ELSE GpkResult(KeyView([record EXCEPT !.public_key_multibase = derivedMultibase]),
                 putPublicKeys(persisted, <<BackfillKeyInput(record, derivedMultibase)>>,
                               io).table,
                 lookedOnline, fetched, puts + 1)

\* lines 96-133, entered with a non-null record
GetPublicKeyTail(persisted, record, io, lookedOnline, fetched, puts) ==
  IF record.is_active = "false"
  THEN GpkResult(NoRec, persisted, lookedOnline, fetched, puts)
  ELSE IF Falsy(record.public_key_multibase) /\ IncludesEd25519(Coalesce(record.key_type, ""))
  THEN GetPublicKeyBackfill(persisted, record, deriveEd25519Multibase(record), io,
                            lookedOnline, fetched, puts)
  ELSE GpkResult(KeyView(record), persisted, lookedOnline, fetched, puts)

\* lines 79-94: the record read back after the upsert of the fetched key
GetPublicKeyReread(persisted, record, io) ==
  IF record = NoRec
  THEN GpkResult(NoRec, persisted, TRUE, TRUE, 1)
  ELSE GetPublicKeyTail(persisted, record, io, TRUE, TRUE, 1)

\* lines 66-79: the upsert of the fetched key, done
GetPublicKeyStored(persisted, verificationMethod, io) ==
  GetPublicKeyReread(persisted, getKeyById(persisted, verificationMethod, io), io)

\* lines 22-83: the online fallback, given what the getter factory produced
GetPublicKeyOnline(persisted, verificationMethod, got, io) ==
  IF got.pk.threw
  THEN GpkResult(NoRec, persisted, TRUE, got.invoked, 0)
  ELSE GetPublicKeyStored(
         putPublicKeys(persisted, <<FetchedKeyInput(verificationMethod, got.pk)>>, io).table,
         verificationMethod, io)

\* lines 15-138, given the record read at line 13
GetPublicKeyFrom(persisted, verificationMethod, record, onLine, hasFetch, net, io) ==
  IF record = NoRec \/ isIncomplete(record)
  THEN IF canPerformNetworkRequest(onLine, hasFetch)
       THEN GetPublicKeyOnline(persisted, verificationMethod,
                               PublicKeyGetterFactory(verificationMethod, net), io)
       ELSE GpkResult(NoRec, persisted, FALSE, FALSE, 0)
  ELSE GetPublicKeyTail(persisted, record, io, FALSE, FALSE, 0)

\* PublicKeyService.getPublicKey
getPublicKey(persisted, verificationMethod, onLine, hasFetch, net, io) ==
  GetPublicKeyFrom(persisted, verificationMethod,
                   getKeyById(persisted, verificationMethod, io),
                   onLine, hasFetch, net, io)

\* ------------------------------------------------- OfflineDocumentLoader
\* Result of documentLoader: status "ok" (document returned), "offline-missing"
\* (the OFFLINE_DEPENDENCIES_MISSING error was raised) or "error" (another
\* error was raised); table = the context table afterwards.
LoaderResult(status, document, table, fetched) ==
  [document |-> document, table |-> table, fetched |-> fetched, status |-> status]

\* body = what the network serves for the url: a document, or "fail" when the
\* fetch rejects, the status is not 2xx or the body is not JSON.
\* The try block of documentLoader once the fetch was issued; onLine = the
\* value of navigator.onLine when the catch block reads it.
FetchContext_Rethrows(persisted, url, onLine, body, now, io) ==
  IF body = "fail"
  THEN LoaderResult("error", JsNull, persisted, TRUE)
  ELSE LoaderResult("ok", body,
         putContexts(persisted,
           <<[url |-> url, document |-> body, organization_id |-> Undef]>>,
           now, io).table,
         TRUE)

FetchContext(persisted, url, onLine, body, now, io) ==
  IF body = "fail"
  THEN IF isExplicitlyOffline(onLine)
       THEN LoaderResult("offline-missing", JsNull, persisted, TRUE)
       ELSE LoaderResult("error", JsNull, persisted, TRUE)
  ELSE LoaderResult("ok", body,
         putContexts(persisted,
           <<[url |-> url, document |-> body, organization_id |-> Undef]>>,
           now, io).table,
         TRUE)

\* documentLoader up to the fetch; status "fetching" = the fetch is issued
LoaderLookup_NetworkFirst(persisted, url, onLine, hasFetch, io) ==
  IF url \in DidUrls
  THEN LoaderResult("error", JsNull, persisted, FALSE)
  ELSE IF canPerformNetworkRequest(onLine, hasFetch)
  THEN LoaderResult("fetching", JsNull, persisted, TRUE)
  ELSE LET ctx == getContext(persisted, url, io)
       IN  IF ~Falsy(ctx) THEN LoaderResult("ok", ctx, persisted, FALSE)
           ELSE LoaderResult("offline-missing", JsNull, persisted, FALSE)

LoaderLookup(persisted, url, onLine, hasFetch, io) ==
  IF url \in DidUrls
  THEN LoaderResult("error", JsNull, persisted, FALSE)
  ELSE LET ctx == getContext(persisted, url, io)
       IN  IF ~Falsy(ctx) THEN LoaderResult("ok", ctx, persisted, FALSE)
           ELSE IF canPerformNetworkRequest(onLine, hasFetch)
           THEN LoaderResult("fetching", JsNull, persisted, TRUE)
           ELSE LoaderResult("offline-missing", JsNull, persisted, FALSE)

\* a whole documentLoader call during which navigator.onLine stays onLine
documentLoader(persisted, url, onLine, hasFetch, body, now, io) ==
  LET l == LoaderLookup(persisted, url, onLine, hasFetch, io)
  IN  IF l.status = "fetching"
      THEN FetchContext(persisted, url, onLine, body, now, io)
      ELSE l

\* ------------------------------------------------------------ credentials
ProofTypes == {"Ed25519Signature2020", "Ed25519Signature2018", "RsaSignature2018"}

\* signer = the raw key whose private half produced the proof value
MkProof(type, vm, signer) == [type |-> type, verificationMethod |-> vm, signer |-> signer]

Proofs ==
  {MkProof("Ed25519Signature2020", VmWeb, 1),
   MkProof("Ed25519Signature2018", VmKey, 1),
   MkProof("RsaSignature2018", VmWeb, 1)}

RECURSIVE SeqsUpTo(_, _)
\* the sequences over S of length at most n
SeqsUpTo(S, n) ==
  IF n = 0 THEN {<<>>}
  ELSE LET shorter == SeqsUpTo(S, n - 1)
       IN  shorter \cup {Append(q, x) : q \in {r \in shorter : Len(r) = n - 1}, x \in S}

\* the parsed credential: json = "malformed" when JSON.parse throws;
\* proofKind = "absent" | "object" | "array" | "malformed" (an array whose
\* first entry is null)
MkCredential(json, context, proofKind, proofs) ==
  [json |-> json, context |-> context, proofKind |-> proofKind, proofs |-> proofs]

ContextLists == {<<"https://ctx/1", "https://ctx/2">>}

Credentials ==
  {MkCredential("malformed", <<>>, "absent", <<>>)}
  \cup {MkCredential("ok", c, "absent", <<>>) : c \in ContextLists}
  \cup {MkCredential("ok", c, "malformed", <<>>) : c \in ContextLists}
  \cup {MkCredential("ok", c, "object", <<p>>) : c \in ContextLists, p \in Proofs}
  \cup {MkCredential("ok", c, "array", ps) : c \in ContextLists, ps \in SeqsUpTo(Proofs, MaxProofs)}

\* the environment of one call: what the network serves for a DID document
\* and for a context url, the clock, and the storage behaviour; jsigs = what
\* jsigs.verify does in a call of verifyWithSuite that is handed its outcome
MkEnv(net, body, now, io, jsigs) ==
  [body |-> body, now |-> now, io |-> io, net |-> net, jsigs |-> jsigs]

\* ------------------------------------------------- linked-data verification
\* jsigs.verify with the offline document loader: every @context url of the
\* credential is loaded in order; a failed load ends the verification with an
\* error that carries the loader's message; otherwise the signature is
\* checked against the key.
RECURSIVE LoadContexts(_, _, _, _, _, _)
RECURSIVE LoadContextsNext(_, _, _, _, _, _)
\* the loads that follow the load l of context[i]
LoadContextsNext(l, context, i, onLine, hasFetch, env) ==
  IF l.status # "ok"
  THEN [table |-> l.table, fetched |-> l.fetched, status |-> l.status]
  ELSE IF l.fetched
  THEN [LoadContexts(l.table, context, i + 1, onLine, hasFetch, env) EXCEPT !.fetched = TRUE]
  ELSE LoadContexts(l.table, context, i + 1, onLine, hasFetch, env)

LoadContexts(persisted, context, i, onLine, hasFetch, env) ==
  IF i > Len(context) THEN [table |-> persisted, fetched |-> FALSE, status |-> "ok"]
  ELSE LoadContextsNext(documentLoader(persisted, context[i], onLine, hasFetch,
                                       env.body, env.now, env.io),
                        context, i, onLine, hasFetch, env)

\* VerificationKey.from(verificationMethodDoc): the raw key of the pair, 0 when
\* the key cannot be built from the view
VerificationKeyFrom(view) ==
  IF Falsy(view.publicKeyMultibase) THEN 0
  ELSE decodeDidKeyMultibaseEd25519(view.publicKeyMultibase)

\* Result of verifying one proof: res = "true" | "false" | "OFFLINE";
\* contexts / keys = the tables afterwards
ProofResult(res, contexts, keys, gpk, ctxFetched) ==
  [res |-> res, contexts |-> contexts, keys |-> keys, ctxFetched |-> ctxFetched,
   keyLookup |-> gpk.lookup, keyResolved |-> gpk.resolved, keyFetched |-> gpk.fetched,
   keyPuts |-> gpk.puts]

NoLookup == [fetched |-> FALSE, puts |-> 0, lookup |-> FALSE, resolved |-> FALSE]

\* what a getPublicKey result g tells about the lookup
KeyLookup(g) ==
  [fetched |-> g.fetched, puts |-> g.puts, lookup |-> TRUE, resolved |-> g.key # NoRec]

\* ---- the outcome of jsigs.verify and its classification (lines 212-264)
\* An error message is the sequence of its words.
OFFLINE_DEPENDENCIES_MISSING == "ERR_OFFLINE_DEPENDENCIES_MISSING"

MsgSentinel == <<OFFLINE_DEPENDENCIES_MISSING>>

MsgWrapped == <<"Dereferencing", "failed:", OFFLINE_DEPENDENCIES_MISSING>>

MsgOther == <<"Invalid", "signature">>

\* what VerificationKey.from throws for a key it cannot build
MsgKeyError == <<"Unsupported", "key">>

\* an error object: message = <<>> when it has no string message; errors /
\* details = <<>> when the property is not an array
ErrNode(message, errors, details) ==
  [message |-> message, errors |-> errors, details |-> details]

\* what jsigs.verify did: kind = "verified" | "failed" (it resolved with
\* verified false and error, NoRec when error is undefined) | "threw" (it
\* rejected with error)
Jsigs(kind, error) == [kind |-> kind, error |-> error]

NoJsigs == Jsigs("none", NoRec)

RECURSIVE Flatten(_)
\* out.push(...) of every sequence of seqs, in order
Flatten(seqs) == IF Len(seqs) = 0 THEN <<>> ELSE Head(seqs) \o Flatten(Tail(seqs))

RECURSIVE collectMessages(_)
\* lines 231-244: the messages of e and of its errors and details, depth first
collectMessages(e) ==
  IF e = NoRec THEN <<>>
  ELSE (IF Len(e.message) > 0 THEN <<e.message>> ELSE <<>>)
       \o Flatten([i \in 1..Len(e.errors) |-> collectMessages(e.errors[i])])
       \o Flatten([i \in 1..Len(e.details) |-> collectMessages(e.details[i])])

RECURSIVE Join(_)
\* messages.join(' | ')
Join(messages) ==
  IF Len(messages) = 0 THEN <<>>
  ELSE IF Len(messages) = 1 THEN messages[1]
  ELSE messages[1] \o <<"|">> \o Join(Tail(messages))

\* text.includes(word)
Includes(text, word) == \E i \in 1..Len(text) : text[i] = word

\* a catch block that lets every error through ("RAISED" = another error
\* leaves verifyWithSuite)
CatchSuiteError_RethrowsAll(error) ==
  IF error # NoRec /\ error.message = MsgSentinel THEN "OFFLINE" ELSE "RAISED"

\* lines 258-264: the catch block of verifyWithSuite given the error thrown
\* in its try block: "OFFLINE" = rethrown, "false" = returned
CatchSuiteError(error) ==
  IF error # NoRec /\ error.message = MsgSentinel THEN "OFFLINE" ELSE "false"

\* lines 221-264: "true" | "false" | "OFFLINE" from what jsigs.verify did
SuiteOutcome(j) ==
  IF j.kind = "verified" THEN "true"
  ELSE IF j.kind = "failed"
  THEN IF Includes(Join(collectMessages(j.error)), OFFLINE_DEPENDENCIES_MISSING)
       THEN CatchSuiteError(ErrNode(MsgSentinel, <<>>, <<>>))
       ELSE "false"
  ELSE CatchSuiteError(j.error)

\* jsigs.verify with the offline document loader: a failed load is reported
\* as a verification error that lists the loader's error among its errors
JsigsVerify(proof, key, l) ==
  IF l.status = "offline-missing"
  THEN Jsigs("failed", ErrNode(<<"Verification", "error">>,
                               <<ErrNode(MsgSentinel, <<>>, <<>>)>>, <<>>))
  ELSE IF l.status = "error"
  THEN Jsigs("failed", ErrNode(<<"Verification", "error">>,
                               <<ErrNode(<<"fetch", "failed">>, <<>>, <<>>)>>, <<>>))
  ELSE IF VerificationKeyFrom(key) = proof.signer
  THEN Jsigs("verified", NoRec)
  ELSE Jsigs("failed", ErrNode(MsgOther, <<>>, <<>>))

\* lines 212-264: jsigs.verify with the key of g, the contexts loaded as l
VerifySignature(proof, g, l) ==
  ProofResult(SuiteOutcome(JsigsVerify(proof, g.key, l)),
              l.table, g.table, KeyLookup(g), l.fetched)

\* verifyWithKey without the isExplicitlyOffline test of line 154
VerifyWithKey_NoOfflineRaise(contexts, cred, proof, g, onLine, hasFetch, env) ==
  IF g.key = NoRec
  THEN ProofResult("false", contexts, g.table, KeyLookup(g), FALSE)
  ELSE IF VerificationKeyFrom(g.key) = 0
  THEN ProofResult(CatchSuiteError(ErrNode(MsgKeyError, <<>>, <<>>)),
                   contexts, g.table, KeyLookup(g), FALSE)
  ELSE VerifySignature(proof, g,
                       LoadContexts(contexts, cred.context, 1, onLine, hasFetch, env))

\* lines 152-265 of verifyWithSuite, given the result g of getPublicKey
VerifyWithKey(contexts, cred, proof, g, onLine, hasFetch, env) ==
  IF g.key = NoRec
  THEN IF isExplicitlyOffline(onLine)
       THEN ProofResult(CatchSuiteError(ErrNode(MsgSentinel, <<>>, <<>>)),
                        contexts, g.table, KeyLookup(g), FALSE)
       ELSE ProofResult("false", contexts, g.table, KeyLookup(g), FALSE)
  ELSE IF VerificationKeyFrom(g.key) = 0
  THEN ProofResult(CatchSuiteError(ErrNode(MsgKeyError, <<>>, <<>>)),
                   contexts, g.table, KeyLookup(g), FALSE)
  ELSE VerifySignature(proof, g,
                       LoadContexts(contexts, cred.context, 1, onLine, hasFetch, env))

\* LdpVerifier.verifyWithSuite
verifyWithSuite(contexts, keys, cred, proof, onLine, hasFetch, env) ==
  VerifyWithKey(contexts, cred, proof,
                getPublicKey(keys, proof.verificationMethod, onLine, hasFetch,
                             env.net, env.io),
                onLine, hasFetch, env)

\* verifySingleProof with the default branch routed to the Ed25519 suite
verifySingleProof_AnySuite(contexts, keys, cred, proof, onLine, hasFetch, env) ==
  verifyWithSuite(contexts, keys, cred, proof, onLine, hasFetch, env)

\* LdpVerifier.verifySingleProof
verifySingleProof(contexts, keys, cred, proof, onLine, hasFetch, env) ==
  IF proof.type \in {"Ed25519Signature2020", "Ed25519Signature2018"}
  THEN verifyWithSuite(contexts, keys, cred, proof, onLine, hasFetch, env)
  ELSE ProofResult("false", contexts, keys, NoLookup, FALSE)

\* the preflight looking at the first @context url only
PreflightFails_FirstOnly(contexts, cred, io) ==
  Len(cred.context) > 0 /\ Falsy(getContext(contexts, cred.context[1], io))

\* the offline preflight of verify (lines 60-70): TRUE when some @context
\* url is not present in the cache
PreflightFails(contexts, cred, io) ==
  \E i \in 1..Len(cred.context) : Falsy(getContext(contexts, cred.context[i], io))

\* Result of verify: outcome = "true" | "false" | "OFFLINE" | "UNKNOWN";
\* path = where the call ended; steps = the results of the proofs dispatched.
VerifyResult(outcome, path, contexts, keys, steps) ==
  [contexts |-> contexts, keys |-> keys, outcome |-> outcome, path |-> path,
   steps |-> steps]

\* what JSON.parse throws for a string that is not JSON
MsgSyntaxError == <<"Unexpected", "token">>

\* what reading .type of a null proof entry throws
MsgTypeError == <<"Cannot", "read", "properties", "of", "null">>

\* a catch block that rethrows whatever it caught ("RAISED" = the internal
\* error itself leaves verify)
VerifyCatch_RethrowsRaw(exception) ==
  IF Includes(exception.message, OFFLINE_DEPENDENCIES_MISSING) THEN "OFFLINE" ELSE "RAISED"

\* lines 97-106: the catch block of verify given the exception thrown in its
\* try block: "OFFLINE" = rethrown as it is, "UNKNOWN" = UnknownException
VerifyCatch(exception) ==
  IF Includes(exception.message, OFFLINE_DEPENDENCIES_MISSING) THEN "OFFLINE" ELSE "UNKNOWN"

RECURSIVE VerifyProofs(_, _, _, _, _, _, _, _)
\* the loop body returning true as soon as one proof verifies
VerifyProofsNext_StopAfterFirst(r, cred, i, steps, onLine, hasFetch, env) ==
  IF r.res = "OFFLINE"
  THEN VerifyResult(VerifyCatch(ErrNode(MsgSentinel, <<>>, <<>>)), "proof-offline",
                    r.contexts, r.keys, Append(steps, r))
  ELSE IF r.res = "false"
  THEN VerifyResult("false", "proof-failed", r.contexts, r.keys, Append(steps, r))
  ELSE VerifyResult("true", "all-verified", r.contexts, r.keys, Append(steps, r))

\* the loop body verifying every proof and combining the results at the end
VerifyProofsNext_VerifiesAll(r, cred, i, steps, onLine, hasFetch, env) ==
  IF r.res = "OFFLINE"
  THEN VerifyResult(VerifyCatch(ErrNode(MsgSentinel, <<>>, <<>>)), "proof-offline",
                    r.contexts, r.keys, Append(steps, r))
  ELSE LET rest == VerifyProofs(r.contexts, r.keys, cred, i + 1, Append(steps, r),
                                onLine, hasFetch, env)
       IN  IF r.res = "false" /\ rest.outcome = "true"
           THEN VerifyResult("false", "proof-failed", rest.contexts, rest.keys, rest.steps)
           ELSE rest

\* lines 85-92: the loop body after proof i gave r
VerifyProofsNext(r, cred, i, steps, onLine, hasFetch, env) ==
  IF r.res = "OFFLINE"
  THEN VerifyResult(VerifyCatch(ErrNode(MsgSentinel, <<>>, <<>>)), "proof-offline",
                    r.contexts, r.keys, Append(steps, r))
  ELSE IF r.res = "false"
  THEN VerifyResult("false", "proof-failed", r.contexts, r.keys, Append(steps, r))
  ELSE VerifyProofs(r.contexts, r.keys, cred, i + 1, Append(steps, r),
                    onLine, hasFetch, env)

\* the for loop of verify (lines 82-95)
VerifyProofs(contexts, keys, cred, i, steps, onLine, hasFetch, env) ==
  IF i > Len(cred.proofs)
  THEN VerifyResult("true", IF i = 1 THEN "empty-proofs" ELSE "all-verified",
                    contexts, keys, steps)
  ELSE VerifyProofsNext(verifySingleProof(contexts, keys, cred, cred.proofs[i],
                                          onLine, hasFetch, env),
                        cred, i, steps, onLine, hasFetch, env)

\* verify without the !proof test of line 74
verify_NoProofCheck(contexts, keys, cred, onLine, hasFetch, env) ==
  IF cred.json # "ok"
  THEN VerifyResult(VerifyCatch(ErrNode(MsgSyntaxError, <<>>, <<>>)), "parse-error",
                    contexts, keys, <<>>)
  ELSE IF isExplicitlyOffline(onLine) /\ PreflightFails(contexts, cred, env.io)
  THEN VerifyResult(VerifyCatch(ErrNode(MsgSentinel, <<>>, <<>>)), "preflight",
                    contexts, keys, <<>>)
  ELSE IF cred.proofKind = "malformed"
  THEN VerifyResult(VerifyCatch(ErrNode(MsgTypeError, <<>>, <<>>)), "proof-malformed",
                    contexts, keys, <<>>)
  ELSE VerifyProofs(contexts, keys, cred, 1, <<>>, onLine, hasFetch, env)

\* verify looking at the proof field before the offline preflight
verify_ProofCheckFirst(contexts, keys, cred, onLine, hasFetch, env) ==
  IF cred.json # "ok"
  THEN VerifyResult(VerifyCatch(ErrNode(MsgSyntaxError, <<>>, <<>>)), "parse-error",
                    contexts, keys, <<>>)
  ELSE IF cred.proofKind = "absent"
  THEN VerifyResult("false", "no-proof", contexts, keys, <<>>)
  ELSE IF isExplicitlyOffline(onLine) /\ PreflightFails(contexts, cred, env.io)
  THEN VerifyResult(VerifyCatch(ErrNode(MsgSentinel, <<>>, <<>>)), "preflight",
                    contexts, keys, <<>>)
  ELSE IF cred.proofKind = "malformed"
  THEN VerifyResult(VerifyCatch(ErrNode(MsgTypeError, <<>>, <<>>)), "proof-malformed",
                    contexts, keys, <<>>)
  ELSE VerifyProofs(contexts, keys, cred, 1, <<>>, onLine, hasFetch, env)

\* LdpVerifier.verify
verify(contexts, keys, cred, onLine, hasFetch, env) ==
  IF cred.json # "ok"
  THEN VerifyResult(VerifyCatch(ErrNode(MsgSyntaxError, <<>>, <<>>)), "parse-error",
                    contexts, keys, <<>>)
  ELSE IF isExplicitlyOffline(onLine) /\ PreflightFails(contexts, cred, env.io)
  THEN VerifyResult(VerifyCatch(ErrNode(MsgSentinel, <<>>, <<>>)), "preflight",
                    contexts, keys, <<>>)
  ELSE IF cred.proofKind = "absent"
  THEN VerifyResult("false", "no-proof", contexts, keys, <<>>)
  ELSE IF cred.proofKind = "malformed"
  THEN VerifyResult(VerifyCatch(ErrNode(MsgTypeError, <<>>, <<>>)), "proof-malformed",
                    contexts, keys, <<>>)
  ELSE VerifyProofs(contexts, keys, cred, 1, <<>>, onLine, hasFetch, env)

\* ===================================================== verification history
\* VerificationHistoryProvider: the React state `history` and the
\* AsyncStorage item @offline-cache:verification-history behind it.
HistoryCap == 100   \* [entry, ...history].slice(0, 100)
MaxResults == 3     \* most results added to the history in one run
MaxVerifying == 2   \* most verifyPayload calls in flight at once

\* StoredVerification: id from generateId(), timestamp from Date.now()
StoredVerification(id, timestamp, source) ==
  [id |-> id, source |-> source, timestamp |-> timestamp]

NoVerification == StoredVerification(0, 0, "none")

\* Array.prototype.slice(0, n)
Slice(s, n) == IF Len(s) <= n THEN s ELSE SubSeq(s, 1, n)

\* the entries a previous session of the application left in storage
PriorHistory(n) == [i \in 1..n |-> StoredVerification(0 - i, 0 - i, "scan")]

PriorLengths == {0, 2, HistoryCap - 1, HistoryCap}

\* persistHistory: setItem, a failure is logged and swallowed
persistHistory(stored, history, writeOk) == IF writeOk THEN history ELSE stored

\* hydrateHistory: getItem, nothing stored or a failure gives []
hydrateHistory(stored, readOk) == IF readOk THEN stored ELSE <<>>

\* addResult: const updated = [entry, ...history].slice(0, 100), where
\* `history` is the state of the render that created the callback
addResult(history, entry) == Slice(<<entry>> \o history, HistoryCap)

\* the provider and the one screen that uses it:
\*   history    the React state
\*   stored     the AsyncStorage item
\*   hydration  the mount effect: "pending" (getItem not resolved),
\*              "read" (hydrateHistory returned), "done" (setHistory ran)
\*   read       what hydrateHistory returned
\*   verifying  isVerifying
\*   pending    the verifyPayload calls between their start and their end,
\*              each by the `history` its addResult closes over
\*   clock      Date.now()
\*   lastCall   the last call that returned, lastAdded the last entry added
\*   scanLock   scanLockRef.current
\*   isScannerVisible  the state behind the scanner Modal
\*   camera     the CameraView of the last render is mounted
\*   focused    the screen has the focus
HistoryCtx(history, stored, hydration, read, verifying, pending, clock, lastCall,
           lastAdded, scanLock, isScannerVisible, camera, focused) ==
  [stored |-> stored, history |-> history, hydration |-> hydration, read |-> read,
   verifying |-> verifying, pending |-> pending, clock |-> clock, lastCall |-> lastCall,
   lastAdded |-> lastAdded, scanLock |-> scanLock, isScannerVisible |-> isScannerVisible,
   camera |-> camera, focused |-> focused]

\* useState([]) and the mount effect started, useRef(false), useState(false),
\* the screen on display
MountedHistory(stored) ==
  HistoryCtx(<<>>, stored, "pending", <<>>, FALSE, <<>>, 0, "none", NoVerification,
             FALSE, FALSE, FALSE, TRUE)

\* s without its i-th element
RemoveAt(s, i) == SubSeq(s, 1, i - 1) \o SubSeq(s, i + 1, Len(s))

NoHistory == MountedHistory(<<>>)

\* no organization has supplied a revocation set
NoRevokedSets == [o \in Orgs |-> {}]

\* =================================================================== state
VARIABLES
  contextStore,     \* persisted table @inji-cache:<CONTEXT_STORE>
  keyStore,         \* persisted table @inji-cache:<KEY_STORE>
  revokedStore,     \* persisted table @inji-cache:<REVOKED_VC_STORE>
  navOnLine,        \* navigator.onLine
  fetchAvailable,   \* typeof fetch === 'function'
  pc,               \* "idle" | "pending" (a call was issued) | "done" (it returned)
  req,              \* the call in flight: operation, arguments, environment
  last,             \* the result of the call that returned
  cacheOp,          \* the most recent call of the organization sync on the cache
  inflight,         \* the cache calls running concurrently, each between two awaits
  historyCtx,       \* the verification history: React state and stored item
  revokedSets       \* for each organization, the revocation set last supplied for it

vars == <<contextStore, keyStore, revokedStore, navOnLine, fetchAvailable, pc, req, last,
         cacheOp, inflight, historyCtx, revokedSets>>

stores == <<contextStore, keyStore, revokedStore>>

runtime == <<navOnLine, fetchAvailable>>

NoCredential == MkCredential("none", <<>>, "absent", <<>>)

NoEnv == MkEnv(NetUnreachable, "fail", 0, IoOk, NoJsigs)

\* url: the url a documentLoader call asks for
Request(op, cred, vm, url, env) ==
  [url |-> url, vm |-> vm, env |-> env, cred |-> cred, op |-> op]

NoRequest == Request("none", NoCredential, NoVm, "", NoEnv)

\* outcome / path / steps: of verify; key / fetched / puts: of getPublicKey;
\* outcome / document / fetched: of documentLoader
Result(op, outcome, path, steps, key, fetched, puts, document) ==
  [document |-> document, key |-> key, fetched |-> fetched, puts |-> puts,
   outcome |-> outcome, path |-> path, steps |-> steps, op |-> op]

NoResult == Result("none", "", "", <<>>, NoRec, FALSE, 0, JsNull)

\* supplied: the ids of the records passed in; inserted: the ids the call
\* stored; overwrote: the stored ids that held a different record before;
\* threw: the call rejected instead of resolving
CacheOp(op, table, organizationId, supplied, inserted, overwrote, threw, io) ==
  [io |-> io, table |-> table, threw |-> threw, organizationId |-> organizationId, op |-> op,
   supplied |-> supplied, inserted |-> inserted, overwrote |-> overwrote]

NoCacheOp == CacheOp("none", "", JsNull, {}, {}, {}, FALSE, IoOk)

\* the names of the calls that may run at the same time
Tasks == {"t1", "t2"}

\* a cache call: op = "put" | "replace" | "clear" | "read" | "getPublicKey";
\* id = the id a read or getPublicKey asks for
ConcCall(op, organizationId, batch, id) ==
  [id |-> id, organizationId |-> organizationId, op |-> op, batch |-> batch]

NoCall == ConcCall("none", JsNull, <<>>, "")

\* a call in flight: phase = "idle" | "called" | "derived" (getPublicKey about
\* to upsert a derived multibase) | "loaded" (the table was read, the store
\* objects of writes await their setItem) | "done"; record = what getKeyById
\* gave getPublicKey; seen = what a read returned; wrote = a setItem was made
Task(call, phase, record, writes, seen, wrote) ==
  [record |-> record, call |-> call, phase |-> phase, writes |-> writes, seen |-> seen,
   wrote |-> wrote]

NoTask == Task(NoCall, "idle", NoRec, <<>>, NoRec, FALSE)

\* base = the table when the first of the calls in flight was issued
Inflight(base, task) == [base |-> base, task |-> task]

NoInflight == Inflight(<<>>, [t \in Tasks |-> NoTask])

Init ==
  /\ revokedSets = NoRevokedSets
  /\ historyCtx = NoHistory
  /\ inflight = NoInflight
  /\ contextStore = EmptyStore(Urls)
  /\ keyStore = EmptyStore(KeyIds)
  /\ revokedStore = EmptyStore(VcIds)
  /\ navOnLine \in OnLineValues
  /\ fetchAvailable \in BOOLEAN
  /\ pc = "idle"
  /\ req = NoRequest
  /\ last = NoResult
  /\ cacheOp = NoCacheOp

\* ------------------------------------------------------------------ inputs
KeyInput(id, type, mb, jwk, hex, active, org) ==
  [organization_id |-> org, key_id |-> id, key_type |-> type, public_key_multibase |-> mb,
   public_key_hex |-> hex, public_key_jwk |-> jwk, controller |-> id, purpose |-> Undef,
   is_active |-> active]

KeyWeb1 == KeyInput(VmWeb, "Ed25519VerificationKey2020", "z6Mk1", NoJwk, Undef, Undef, "org-1")

KeyWeb2 == KeyInput(VmWeb, "Ed25519VerificationKey2020", "z6Mk2", NoJwk, Undef, "true", "org-1")

KeyWebJwk == KeyInput(VmWeb, "Ed25519VerificationKey2020", Undef, JwkEd1, Undef, "true", "org-1")

KeyWebInactive == KeyInput(VmWeb, "Ed25519VerificationKey2020", "z6Mk1", NoJwk, Undef, "false", "org-1")

KeyWebInactiveBare == KeyInput(VmWeb, Undef, Undef, NoJwk, Undef, "false", "org-1")

KeyDidKey1 == KeyInput(VmKey, Undef, "z6Mk1", NoJwk, Undef, Undef, Undef)

PrimeKeys == {KeyWeb1, KeyWeb2, KeyWebJwk, KeyWebInactive, KeyWebInactiveBare, KeyDidKey1}

ContextInput(url, document, org) == [url |-> url, document |-> document, organization_id |-> org]

PrimeContexts ==
  {<<ContextInput("https://ctx/1", "doc-a", Undef)>>,
   <<ContextInput("https://ctx/1", "doc-a", Undef), ContextInput("https://ctx/2", "doc-a", Undef)>>}

RevokedInput(id, issuer, org) ==
  [organization_id |-> org, vc_id |-> id, issuer |-> issuer, subject |-> Undef,
   reason |-> Undef, revoked_at |-> "2025-01-01"]

PrimeRevoked == {<<RevokedInput("vc-1", "did:web:issuer.example", "org-1")>>}

NetChoices == {NetUnreachable, NetMultibase1, NetPemRsa}

BodyChoices == {"fail", "doc-a"}

\* the clock reading of a run: the earliest value
PipelineNow == CHOOSE t \in Times : \A u \in Times : t <= u

\* what the network serves during a verify call
VerifyNets == {NetUnreachable, NetMultibase1}

Envs == {MkEnv(net, body, PipelineNow, io, NoJsigs) : net \in VerifyNets, body \in BodyChoices, io \in IoModes}

KeyEnvs == {MkEnv(net, "fail", PipelineNow, io, NoJsigs) : net \in NetChoices, io \in IoModes}

\* ----------------------------------------------------------------- actions
\* the runtime's connectivity flag changes
SetOnLine(v) ==
  /\ pc = "idle"
  /\ navOnLine' = v
  /\ UNCHANGED <<revokedSets, historyCtx, cacheOp, inflight, stores, fetchAvailable, pc, req, last>>

\* cache priming: putContexts / putPublicKeys / putRevokedVCs
PrimeContextStore(cs) ==
  /\ pc = "idle"
  /\ contextStore' = putContexts(contextStore, cs, PipelineNow, IoOk).table
  /\ UNCHANGED <<revokedSets, historyCtx, cacheOp, inflight, keyStore, revokedStore, runtime, pc, req, last>>

PrimeKeyStore(ks) ==
  /\ pc = "idle"
  /\ keyStore' = putPublicKeys(keyStore, ks, IoOk).table
  /\ UNCHANGED <<revokedSets, historyCtx, cacheOp, inflight, contextStore, revokedStore, runtime, pc, req, last>>

PrimeRevokedStore(vcs) ==
  /\ pc = "idle"
  /\ revokedStore' = putRevokedVCs(revokedStore, vcs, IoOk).table
  /\ UNCHANGED <<revokedSets, historyCtx, cacheOp, inflight, contextStore, keyStore, runtime, pc, req, last>>

\* a caller issues verify(credential) or getPublicKey(vm)
Call(r) ==
  /\ pc = "idle"
  /\ pc' = "pending"
  /\ req' = r
  /\ UNCHANGED <<revokedSets, historyCtx, cacheOp, inflight, stores, runtime, last>>

\* verify returned v
VerifyReturns(v) ==
  /\ contextStore' = v.contexts
  /\ keyStore' = v.keys
  /\ last' = Result("verify", v.outcome, v.path, v.steps, NoRec, FALSE, 0, JsNull)

\* LdpVerifier.verify runs to its end
RunVerify ==
  /\ pc = "pending"
  /\ req.op = "verify"
  /\ VerifyReturns(verify(contextStore, keyStore, req.cred, navOnLine, fetchAvailable,
                          req.env))
  /\ pc' = "done"
  /\ UNCHANGED <<revokedSets, historyCtx, cacheOp, inflight, revokedStore, runtime, req>>

\* getPublicKey returned g
GetPublicKeyReturns(g) ==
  /\ keyStore' = g.table
  /\ last' = Result("getPublicKey", IF g.key = NoRec THEN "null" ELSE "key", "",
                    <<>>, g.key, g.fetched, g.puts, JsNull)

\* PublicKeyService.getPublicKey runs to its end
RunGetPublicKey ==
  /\ pc = "pending"
  /\ req.op = "getPublicKey"
  /\ GetPublicKeyReturns(getPublicKey(keyStore, req.vm, navOnLine, fetchAvailable,
                                      req.env.net, req.env.io))
  /\ pc' = "done"
  /\ UNCHANGED <<revokedSets, historyCtx, cacheOp, inflight, contextStore, revokedStore, runtime, req>>

\* the caller takes the result
Return ==
  /\ pc = "done"
  /\ pc' = "idle"
  /\ req' = NoRequest
  /\ last' = NoResult
  /\ UNCHANGED <<revokedSets, historyCtx, cacheOp, inflight, stores, runtime>>

Next ==
  \/ \E v \in OnLineValues : SetOnLine(v)
  \/ \E cs \in PrimeContexts : PrimeContextStore(cs)
  \/ \E k \in PrimeKeys : PrimeKeyStore(<<k>>)
  \/ \E vcs \in PrimeRevoked : PrimeRevokedStore(vcs)
  \/ \E cred \in Credentials, env \in Envs : Call(Request("verify", cred, NoVm, "", env))
  \/ \E vm \in KeyIds, env \in KeyEnvs : Call(Request("getPublicKey", NoCredential, vm, "", env))
  \/ RunVerify
  \/ RunGetPublicKey
  \/ Return

Spec == Init /\ [][Next]_vars

\* ======================================================= the cache store alone
\* The cache maintenance of the SDK (priming, organization sync) calling the CacheHelper
\* operations one after the other, each running to its end.
CacheKeys == {KeyWeb1, KeyDidKey1}

CacheContexts == {ContextInput(u, "doc-a", Undef) : u \in Urls}

CacheRevoked ==
  {RevokedInput("vc-1", "did:web:issuer.example", "org-1"),
   RevokedInput("vc-2", "did:web:issuer.example", "org-2")}

KeyBatches == SeqsUpTo(CacheKeys, MaxBatch)

ContextBatches == SeqsUpTo(CacheContexts, MaxBatch)

RevokedBatches == SeqsUpTo(CacheRevoked, MaxBatch)

\* the ids of the records of a batch that pass the validation of the loop
ContextIds(cs) == {cs[i].url : i \in {j \in 1..Len(cs) : ~Falsy(cs[j].url)}}

KeyIdsOf(ks) == {ks[i].key_id : i \in {j \in 1..Len(ks) : ~KeyInvalid(ks[j])}}

RevokedIdsPut(vcs) == {vcs[i].vc_id : i \in {j \in 1..Len(vcs) : ~RevokedInvalid(vcs[j])}}

RevokedIdsReplace(vcs) == {vcs[i].vc_id : i \in {j \in 1..Len(vcs) : vcs[j].vc_id \in VcIds}}

\* the ids a call stored: none when the write was dropped or the call threw
Stored(ids, r, io) == IF io.writeOk /\ ~r.threw THEN ids ELSE {}

\* the ids among those stored whose record replaced a different one
Overwrote(ids, before, after) == {id \in ids : before[id] # NoRec /\ before[id] # after[id]}

InitCache ==
  /\ revokedSets = NoRevokedSets
  /\ historyCtx = NoHistory
  /\ inflight = NoInflight
  /\ contextStore = EmptyStore(Urls)
  /\ keyStore = EmptyStore(KeyIds)
  /\ revokedStore = EmptyStore(VcIds)
  /\ navOnLine = "true"
  /\ fetchAvailable = TRUE
  /\ pc = "idle"
  /\ req = NoRequest
  /\ last = NoResult
  /\ cacheOp = NoCacheOp

CachePutContexts(cs, io) ==
  /\ LET r == putContexts(contextStore, cs, PipelineNow, io)
     IN  /\ contextStore' = r.table
         /\ cacheOp' = CacheOp("put", "contexts", JsNull, ContextIds(cs),
                               Stored(ContextIds(cs), r, io),
                               Overwrote(Stored(ContextIds(cs), r, io), contextStore, r.table), r.threw, io)
  /\ UNCHANGED <<revokedSets, historyCtx, keyStore, revokedStore, runtime, pc, req, last, inflight>>

CacheReplaceContexts(organizationId, cs, io) ==
  /\ LET r == replaceContextsForOrganization(contextStore, organizationId, cs,
                                             PipelineNow, io)
     IN  /\ contextStore' = r.table
         /\ cacheOp' = CacheOp("replace", "contexts", organizationId, ContextIds(cs),
                               Stored(ContextIds(cs), r, io),
                               Overwrote(Stored(ContextIds(cs), r, io), contextStore, r.table), r.threw, io)
  /\ UNCHANGED <<revokedSets, historyCtx, keyStore, revokedStore, runtime, pc, req, last, inflight>>

CacheClearContexts(io) ==
  /\ contextStore' = clearContextStore(contextStore, io)
  /\ cacheOp' = CacheOp("clear", "contexts", JsNull, {}, {}, {}, FALSE, io)
  /\ UNCHANGED <<revokedSets, historyCtx, keyStore, revokedStore, runtime, pc, req, last, inflight>>

CachePutPublicKeys(ks, io) ==
  /\ LET r == putPublicKeys(keyStore, ks, io)
     IN  /\ keyStore' = r.table
         /\ cacheOp' = CacheOp("put", "keys", JsNull, KeyIdsOf(ks),
                               Stored(KeyIdsOf(ks), r, io),
                               Overwrote(Stored(KeyIdsOf(ks), r, io), keyStore, r.table), r.threw, io)
  /\ UNCHANGED <<revokedSets, historyCtx, contextStore, revokedStore, runtime, pc, req, last, inflight>>

CacheReplacePublicKeys(organizationId, ks, io) ==
  /\ LET r == replacePublicKeysForOrganization(keyStore, organizationId, ks, io)
     IN  /\ keyStore' = r.table
         /\ cacheOp' = CacheOp("replace", "keys", organizationId, KeyIdsOf(ks),
                               Stored(KeyIdsOf(ks), r, io),
                               Overwrote(Stored(KeyIdsOf(ks), r, io), keyStore, r.table), r.threw, io)
  /\ UNCHANGED <<revokedSets, historyCtx, contextStore, revokedStore, runtime, pc, req, last, inflight>>

CacheClearPublicKeys(io) ==
  /\ keyStore' = clearPublicKeyStore(keyStore, io)
  /\ cacheOp' = CacheOp("clear", "keys", JsNull, {}, {}, {}, FALSE, io)
  /\ UNCHANGED <<revokedSets, historyCtx, contextStore, revokedStore, runtime, pc, req, last, inflight>>

CachePutRevokedVCs(vcs, io) ==
  /\ LET r == putRevokedVCs(revokedStore, vcs, io)
     IN  /\ revokedStore' = r.table
         /\ cacheOp' = CacheOp("put", "revoked", JsNull, RevokedIdsPut(vcs),
                               Stored(RevokedIdsPut(vcs), r, io),
                               Overwrote(Stored(RevokedIdsPut(vcs), r, io), revokedStore, r.table), r.threw, io)
  /\ UNCHANGED <<revokedSets, historyCtx, contextStore, keyStore, runtime, pc, req, last, inflight>>

CacheReplaceRevokedVCs(organizationId, vcs, io) ==
  /\ LET r == replaceRevokedVCsForOrganization(revokedStore, organizationId, vcs, io)
     IN  /\ revokedStore' = r.table
         /\ cacheOp' = CacheOp("replace", "revoked", organizationId, RevokedIdsReplace(vcs),
                               Stored(RevokedIdsReplace(vcs), r, io),
                               Overwrote(Stored(RevokedIdsReplace(vcs), r, io), revokedStore, r.table), r.threw, io)
  /\ UNCHANGED <<revokedSets, historyCtx, contextStore, keyStore, runtime, pc, req, last, inflight>>

CacheClearRevokedVCs(io) ==
  /\ revokedStore' = clearRevokedVCStore(revokedStore, io)
  /\ cacheOp' = CacheOp("clear", "revoked", JsNull, {}, {}, {}, FALSE, io)
  /\ UNCHANGED <<revokedSets, historyCtx, contextStore, keyStore, runtime, pc, req, last, inflight>>

NextCache ==
  \/ \E cs \in ContextBatches, io \in IoModes : CachePutContexts(cs, io)
  \/ \E o \in Orgs, cs \in ContextBatches, io \in IoModes : CacheReplaceContexts(o, cs, io)
  \/ \E io \in IoModes : CacheClearContexts(io)
  \/ \E ks \in KeyBatches, io \in IoModes : CachePutPublicKeys(ks, io)
  \/ \E o \in Orgs, ks \in KeyBatches, io \in IoModes : CacheReplacePublicKeys(o, ks, io)
  \/ \E io \in IoModes : CacheClearPublicKeys(io)
  \/ \E vcs \in RevokedBatches, io \in IoModes : CachePutRevokedVCs(vcs, io)
  \/ \E o \in Orgs, vcs \in RevokedBatches, io \in IoModes : CacheReplaceRevokedVCs(o, vcs, io)
  \/ \E io \in IoModes : CacheClearRevokedVCs(io)

SpecCache == InitCache /\ [][NextCache]_vars

\* ============================================== one cache table at a time
\* The three tables live under three storage keys and no CacheHelper operation
\* touches more than one of them, so the maintenance of each table is also
\* explored on its own: the table named by the initial cacheOp is the only
\* one the calls of a behaviour work on.
TableNames == {"contexts", "keys", "revoked"}

\* key inputs with two different records for the same key_id
TableKeys == {KeyWeb1, KeyWebInactiveBare, KeyDidKey1}

TableKeyBatches == SeqsUpTo(TableKeys, MaxBatch)

InitTable ==
  /\ revokedSets = NoRevokedSets
  /\ historyCtx = NoHistory
  /\ inflight = NoInflight
  /\ contextStore = EmptyStore(Urls)
  /\ keyStore = EmptyStore(KeyIds)
  /\ revokedStore = EmptyStore(VcIds)
  /\ navOnLine = "true"
  /\ fetchAvailable = TRUE
  /\ pc = "idle"
  /\ req = NoRequest
  /\ last = NoResult
  /\ cacheOp \in {[NoCacheOp EXCEPT !.table = t] : t \in TableNames}

NextTable ==
  \/ cacheOp.table = "contexts"
       /\ \E cs \in ContextBatches, io \in IoModes : CachePutContexts(cs, io)
  \/ cacheOp.table = "contexts"
       /\ \E o \in Orgs, cs \in ContextBatches, io \in IoModes : CacheReplaceContexts(o, cs, io)
  \/ cacheOp.table = "contexts" /\ \E io \in IoModes : CacheClearContexts(io)
  \/ cacheOp.table = "keys"
       /\ \E ks \in TableKeyBatches, io \in IoModes : CachePutPublicKeys(ks, io)
  \/ cacheOp.table = "keys"
       /\ \E o \in Orgs, ks \in TableKeyBatches, io \in IoModes : CacheReplacePublicKeys(o, ks, io)
  \/ cacheOp.table = "keys" /\ \E io \in IoModes : CacheClearPublicKeys(io)
  \/ cacheOp.table = "revoked"
       /\ \E vcs \in RevokedBatches, io \in IoModes : CachePutRevokedVCs(vcs, io)
  \/ cacheOp.table = "revoked"
       /\ \E o \in Orgs, vcs \in RevokedBatches, io \in IoModes : CacheReplaceRevokedVCs(o, vcs, io)
  \/ cacheOp.table = "revoked" /\ \E io \in IoModes : CacheClearRevokedVCs(io)

SpecTable == InitTable /\ [][NextTable]_vars

\* ============================================ concurrent calls on one table
\* Every CacheHelper operation is an async function: it awaits the read of its
\* table (readJson), changes the store object it got without awaiting, and
\* awaits the write of the whole object (writeJson).  Calls issued without
\* awaiting one another interleave at these awaits.  The runtime is offline, so
\* getPublicKey works from the cache alone.  As in SpecTable, one table per
\* behaviour.
ContextDocB == ContextInput("https://ctx/1", "doc-b", Undef)

ConcCalls(table) ==
  CASE table = "contexts" ->
         {ConcCall("put", JsNull, <<c>>, "") : c \in CacheContexts}
           \cup {ConcCall("replace", "org-1", cs, "") : cs \in {<<>>, <<ContextDocB>>}}
           \cup {ConcCall("clear", JsNull, <<>>, "")}
           \cup {ConcCall("read", JsNull, <<>>, u) : u \in Urls}
    [] table = "keys" ->
         {ConcCall("put", JsNull, <<k>>, NoVm) : k \in {KeyWebJwk, KeyDidKey1}}
           \cup {ConcCall("replace", "org-1", ks, NoVm) : ks \in {<<>>, <<KeyWeb1>>}}
           \cup {ConcCall("clear", JsNull, <<>>, NoVm)}
           \cup {ConcCall(op, JsNull, <<>>, VmWeb) : op \in {"read", "getPublicKey"}}
    [] OTHER ->
         {ConcCall("put", JsNull, <<vc>>, "") : vc \in CacheRevoked}
           \cup {ConcCall("replace", "org-1", vcs, "") :
                   vcs \in {<<>>, <<RevokedInput("vc-1", "did:web:issuer.example", "org-1")>>}}
           \cup {ConcCall("clear", JsNull, <<>>, "")}
           \cup {ConcCall("read", JsNull, <<>>, id) : id \in VcIds}

\* the table the calls of the behaviour work on
FocusTable ==
  CASE cacheOp.table = "contexts" -> contextStore
    [] cacheOp.table = "keys" -> keyStore
    [] OTHER -> revokedStore

\* setItem(<storage key of the table>, JSON.stringify(store))
SetItem(store) ==
  \/ cacheOp.table = "contexts" /\ contextStore' = store /\ UNCHANGED <<keyStore, revokedStore>>
  \/ cacheOp.table = "keys" /\ keyStore' = store /\ UNCHANGED <<contextStore, revokedStore>>
  \/ cacheOp.table = "revoked" /\ revokedStore' = store /\ UNCHANGED <<contextStore, keyStore>>

\* the whole call, run without interruption on the table T
ApplyCall(table, c, T) ==
  CASE c.op = "put" /\ table = "contexts" -> putContexts(T, c.batch, PipelineNow, IoOk).table
    [] c.op = "put" /\ table = "keys" -> putPublicKeys(T, c.batch, IoOk).table
    [] c.op = "put" /\ table = "revoked" -> putRevokedVCs(T, c.batch, IoOk).table
    [] c.op = "replace" /\ table = "contexts" ->
         replaceContextsForOrganization(T, c.organizationId, c.batch, PipelineNow, IoOk).table
    [] c.op = "replace" /\ table = "keys" ->
         replacePublicKeysForOrganization(T, c.organizationId, c.batch, IoOk).table
    [] c.op = "replace" /\ table = "revoked" ->
         replaceRevokedVCsForOrganization(T, c.organizationId, c.batch, IoOk).table
    [] c.op = "clear" -> EmptyStore(DOMAIN T)
    [] c.op = "getPublicKey" ->
         getPublicKey(T, c.id, navOnLine, fetchAvailable, NetUnreachable, IoOk).table
    [] OTHER -> T

\* getContext / getKeyById / isVCRevoked on the table T
ReadIn(table, id, T) ==
  CASE table = "contexts" -> getContext(T, id, IoOk)
    [] table = "keys" -> getKeyById(T, id, IoOk)
    [] OTHER -> isVCRevoked(T, id, IoOk)

\* PublicKeyService.ts lines 96-104: the record read at line 13 leads to the
\* upsert of a derived multibase
NeedsBackfill(record) ==
  /\ record # NoRec
  /\ ~isIncomplete(record)
  /\ GetPublicKeyTail(EmptyStore(KeyIds), record, IoOk, FALSE, FALSE, 0).puts = 1

\* the upsert appending the derived multibase to the one already stored
BackfillStore_Appending(task, T) ==
  LET derived == deriveEd25519Multibase(task.record)
      stored == readJson(T, TRUE)[task.record.key_id]
  IN  PutPublicKeysLoop(
        readJson(T, TRUE),
        <<BackfillKeyInput(task.record,
                           IF stored # NoRec /\ ~Falsy(stored.public_key_multibase)
                           THEN "z6Mk1z6Mk1" ELSE derived)>>,
        1).store

\* PublicKeyService.ts lines 106-118: the store object of the putPublicKeys
\* that backfills the multibase derived from the record read at line 13
BackfillStore(task, T) ==
  PutPublicKeysLoop(readJson(T, TRUE),
                    <<BackfillKeyInput(task.record, deriveEd25519Multibase(task.record))>>,
                    1).store

\* the store object a call holds after its load and its loop, T being the
\* table its readJson returned
InMemory(table, task, T) ==
  CASE task.call.op = "put" /\ table = "contexts" ->
         PutContextsLoop(readJson(T, TRUE), task.call.batch, 1, PipelineNow)
    [] task.call.op = "put" /\ table = "keys" ->
         PutPublicKeysLoop(readJson(T, TRUE), task.call.batch, 1).store
    [] task.call.op = "put" /\ table = "revoked" ->
         PutRevokedVCsLoop(readJson(T, TRUE), task.call.batch, 1).store
    [] task.call.op = "replace" /\ table = "contexts" ->
         ReplaceContextsLoop(DeleteOrgNullable(readJson(T, TRUE), task.call.organizationId),
                             task.call.batch, 1, task.call.organizationId, PipelineNow)
    [] task.call.op = "replace" /\ table = "keys" ->
         ReplacePublicKeysLoop(DeleteOrgNullable(readJson(T, TRUE), task.call.organizationId),
                               task.call.batch, 1)
    [] task.call.op = "replace" /\ table = "revoked" ->
         ReplaceRevokedLoop(DeleteOrgStrict(readJson(T, TRUE), task.call.organizationId),
                            task.call.batch, 1)
    [] OTHER -> BackfillStore(task, T)

\* a replace writing the table once its delete loop is through and once more
\* at its end
SavesOf_AfterDeleteToo(table, task, T) ==
  IF task.call.op = "replace"
  THEN <<IF table = "revoked" THEN DeleteOrgStrict(readJson(T, TRUE), task.call.organizationId)
         ELSE DeleteOrgNullable(readJson(T, TRUE), task.call.organizationId),
         InMemory(table, task, T)>>
  ELSE <<InMemory(table, task, T)>>

\* the store objects the call hands to writeJson, in order: one, at its end
SavesOf(table, task, T) == <<InMemory(table, task, T)>>

InitConc ==
  /\ revokedSets = NoRevokedSets
  /\ historyCtx = NoHistory
  /\ inflight = NoInflight
  /\ contextStore = EmptyStore(Urls)
  /\ keyStore = EmptyStore(KeyIds)
  /\ revokedStore = EmptyStore(VcIds)
  /\ navOnLine = "false"
  /\ fetchAvailable = TRUE
  /\ pc = "idle"
  /\ req = NoRequest
  /\ last = NoResult
  /\ cacheOp \in {[NoCacheOp EXCEPT !.table = t] : t \in TableNames}

AllIdle == \A t \in Tasks : inflight.task[t].phase = "idle"

\* a call is issued; clearXStore goes to its writeJson at once
ConcIssue(t, c) ==
  /\ inflight.task[t].phase = "idle"
  /\ inflight' =
       Inflight(IF AllIdle THEN FocusTable ELSE inflight.base,
                [inflight.task EXCEPT ![t] =
                   IF c.op = "clear"
                   THEN Task(c, "loaded", NoRec, <<EmptyStore(DOMAIN FocusTable)>>, NoRec, FALSE)
                   ELSE Task(c, "called", NoRec, <<>>, NoRec, FALSE)])
  /\ UNCHANGED <<revokedSets, historyCtx, stores, runtime, pc, req, last, cacheOp>>

\* the readJson of a put / replace / backfilling putPublicKeys resolves and
\* the loop runs
ConcLoad(t) ==
  /\ \/ inflight.task[t].phase = "called" /\ inflight.task[t].call.op \in {"put", "replace"}
     \/ inflight.task[t].phase = "derived"
  /\ inflight' =
       [inflight EXCEPT !.task[t].phase = "loaded",
                        !.task[t].writes = SavesOf(cacheOp.table, inflight.task[t], FocusTable)]
  /\ UNCHANGED <<revokedSets, historyCtx, stores, runtime, pc, req, last, cacheOp>>

\* a writeJson of the call resolves
ConcSave(t) ==
  /\ inflight.task[t].phase = "loaded"
  /\ SetItem(Head(inflight.task[t].writes))
  /\ inflight' =
       [inflight EXCEPT !.task[t].phase = IF Len(inflight.task[t].writes) = 1
                                          THEN "done" ELSE "loaded",
                        !.task[t].writes = Tail(inflight.task[t].writes),
                        !.task[t].wrote = TRUE]
  /\ UNCHANGED <<revokedSets, historyCtx, runtime, pc, req, last, cacheOp>>

\* getContext / getKeyById / isVCRevoked runs
ConcRead(t) ==
  /\ inflight.task[t].phase = "called" /\ inflight.task[t].call.op = "read"
  /\ inflight' =
       [inflight EXCEPT !.task[t].phase = "done",
                        !.task[t].seen = ReadIn(cacheOp.table, inflight.task[t].call.id,
                                                FocusTable)]
  /\ UNCHANGED <<revokedSets, historyCtx, stores, runtime, pc, req, last, cacheOp>>

\* getPublicKey reads its record (line 13) and, unless a multibase is to be
\* backfilled, returns
ConcGetRecord(t) ==
  /\ inflight.task[t].phase = "called" /\ inflight.task[t].call.op = "getPublicKey"
  /\ LET record == getKeyById(keyStore, inflight.task[t].call.id, IoOk)
     IN  inflight' =
           IF NeedsBackfill(record)
           THEN [inflight EXCEPT !.task[t].phase = "derived", !.task[t].record = record]
           ELSE [inflight EXCEPT !.task[t].phase = "done", !.task[t].record = record]
  /\ UNCHANGED <<revokedSets, historyCtx, stores, runtime, pc, req, last, cacheOp>>

\* every call issued has returned and the caller goes on
ConcSettle ==
  /\ ~AllIdle
  /\ \A t \in Tasks : inflight.task[t].phase \in {"idle", "done"}
  /\ inflight' = NoInflight
  /\ UNCHANGED <<revokedSets, historyCtx, stores, runtime, pc, req, last, cacheOp>>

NextConc ==
  \/ \E t \in Tasks, c \in ConcCalls(cacheOp.table) : ConcIssue(t, c)
  \/ \E t \in Tasks : ConcLoad(t)
  \/ \E t \in Tasks : ConcSave(t)
  \/ \E t \in Tasks : ConcRead(t)
  \/ \E t \in Tasks : ConcGetRecord(t)
  \/ ConcSettle

SpecConc == InitConc /\ [][NextConc]_vars

\* ================================================ the document loader alone
\* One documentLoader call at a time, split at its awaited fetch: the runtime's
\* connectivity flag may change while the fetch is in flight.
LoaderUrls == Urls \cup DidUrls

\* what the network serves for a context url
LoaderBodies == {"fail", "doc-b"}

LoaderEnvs ==
  {MkEnv(NetUnreachable, body, PipelineNow, io, NoJsigs) : body \in LoaderBodies, io \in IoModes}

\* documentLoader returned or threw l
LoaderReturns(l) ==
  /\ contextStore' = l.table
  /\ last' = Result("documentLoader", l.status, "", <<>>, NoRec, l.fetched, 0, l.document)
  /\ pc' = "done"

\* documentLoader runs up to its fetch: it settles, or the fetch is issued
LoaderLookupStep ==
  /\ pc = "pending"
  /\ req.op = "documentLoader"
  /\ LET l == LoaderLookup(contextStore, req.url, navOnLine, fetchAvailable, req.env.io)
     IN  IF l.status = "fetching"
         THEN pc' = "fetching" /\ UNCHANGED <<contextStore, last>>
         ELSE LoaderReturns(l)
  /\ UNCHANGED <<revokedSets, historyCtx, cacheOp, inflight, keyStore, revokedStore, runtime, req>>

\* the connectivity flag changes while the fetch is in flight
ConnectivityChanges(v) ==
  /\ pc = "fetching"
  /\ navOnLine' = v
  /\ UNCHANGED <<revokedSets, historyCtx, cacheOp, inflight, stores, fetchAvailable, pc, req, last>>

\* the fetch settles and documentLoader runs to its end
LoaderFetchStep ==
  /\ pc = "fetching"
  /\ LoaderReturns(FetchContext(contextStore, req.url, navOnLine, req.env.body,
                                req.env.now, req.env.io))
  /\ UNCHANGED <<revokedSets, historyCtx, cacheOp, inflight, keyStore, revokedStore, runtime, req>>

NextLoader ==
  \/ \E v \in OnLineValues : SetOnLine(v)
  \/ \E cs \in PrimeContexts : PrimeContextStore(cs)
  \/ \E url \in LoaderUrls, env \in LoaderEnvs :
       Call(Request("documentLoader", NoCredential, NoVm, url, env))
  \/ LoaderLookupStep
  \/ \E v \in OnLineValues : ConnectivityChanges(v)
  \/ LoaderFetchStep
  \/ Return

SpecLoader == Init /\ [][NextLoader]_vars

\* ================================== verifyWithSuite after jsigs.verify alone
\* verifyWithSuite from the point where jsigs.verify settled, for every shape
\* of verification error the library may hand back.
ErrMessages == {<<>>, MsgSentinel, MsgWrapped, MsgOther}

ErrLeaves == {ErrNode(m, <<>>, <<>>) : m \in ErrMessages}

ErrLists ==
  {<<>>, <<ErrNode(MsgOther, <<>>, <<>>), ErrNode(MsgSentinel, <<>>, <<>>)>>}
  \cup {<<e>> : e \in ErrLeaves}

ErrTrees ==
  {ErrNode(m, es, ds) : m \in ErrMessages, es \in ErrLists, ds \in ErrLists}
  \cup {ErrNode(MsgOther, <<ErrNode(MsgOther, <<>>, <<ErrNode(MsgSentinel, <<>>, <<>>)>>)>>, <<>>)}

JsigsOutcomes ==
  {Jsigs("verified", NoRec), Jsigs("failed", NoRec), Jsigs("threw", NoRec)}
  \cup {Jsigs("failed", e) : e \in ErrTrees}
  \cup {Jsigs("threw", e) : e \in ErrLeaves}

SuiteEnvs == {MkEnv(NetUnreachable, "fail", PipelineNow, IoOk, j) : j \in JsigsOutcomes}

\* verifyWithSuite runs from the return of jsigs.verify to its end
RunSuite ==
  /\ pc = "pending"
  /\ req.op = "verifyWithSuite"
  /\ last' = Result("verifyWithSuite", SuiteOutcome(req.env.jsigs), "", <<>>, NoRec,
                    FALSE, 0, JsNull)
  /\ pc' = "done"
  /\ UNCHANGED <<revokedSets, historyCtx, cacheOp, inflight, stores, runtime, req>>

NextSuite ==
  \/ \E v \in OnLineValues : SetOnLine(v)
  \/ \E env \in SuiteEnvs : Call(Request("verifyWithSuite", NoCredential, NoVm, "", env))
  \/ RunSuite
  \/ Return

SpecSuite == Init /\ [][NextSuite]_vars

\* ================================================ the did:web getter alone
\* DidWebPublicKeyGetter.get for every combination of encodings a
\* verification-method entry may carry.
DidWebEntries ==
  {VmEntry("Ed25519VerificationKey2020", pem, mb, jwk, hex) :
     pem \in {Undef, "PEM ed25519 1", "PEM rsa"}, mb \in {Undef, "z6Mk2", "zBad"},
     jwk \in {NoJwk, JwkEd1}, hex \in {Undef, "04ab"}}
  \cup {NetMissing, NetUnreachable}

GetterEnvs == {MkEnv(net, "fail", PipelineNow, IoOk, NoJsigs) : net \in DidWebEntries}

\* DidWebPublicKeyGetter.get runs to its end
RunGetter ==
  /\ pc = "pending"
  /\ req.op = "DidWebPublicKeyGetter.get"
  /\ LET pk == DidWebPublicKeyGetter(req.vm, req.env.net)
     IN  last' = Result("DidWebPublicKeyGetter.get", IF pk.threw THEN "threw" ELSE "key",
                        "", <<>>, pk, FALSE, 0, JsNull)
  /\ pc' = "done"
  /\ UNCHANGED <<revokedSets, historyCtx, cacheOp, inflight, stores, runtime, req>>

NextGetter ==
  \/ \E v \in OnLineValues : SetOnLine(v)
  \/ \E env \in GetterEnvs :
       Call(Request("DidWebPublicKeyGetter.get", NoCredential, VmWeb, "", env))
  \/ RunGetter
  \/ Return

SpecGetter == Init /\ [][NextGetter]_vars

\* ================================= getPublicKey for identifiers of other schemes
\* getPublicKey alone, asked for identifiers whose scheme is not one of
\* did:web, did:key, did:jwk and https.
VmHttp == [scheme |-> "http", body |-> "issuer.example/keys", frag |-> "key-1"]

OtherSchemeIds == {VmIon, VmHttp}

InitResolve ==
  /\ revokedSets = NoRevokedSets
  /\ historyCtx = NoHistory
  /\ inflight = NoInflight
  /\ contextStore = EmptyStore(Urls)
  /\ keyStore = EmptyStore(OtherSchemeIds)
  /\ revokedStore = EmptyStore(VcIds)
  /\ navOnLine \in OnLineValues
  /\ fetchAvailable \in BOOLEAN
  /\ pc = "idle"
  /\ req = NoRequest
  /\ last = NoResult
  /\ cacheOp = NoCacheOp

NextResolve ==
  \/ \E v \in OnLineValues : SetOnLine(v)
  \/ \E vm \in OtherSchemeIds, env \in KeyEnvs :
       Call(Request("getPublicKey", NoCredential, vm, "", env))
  \/ RunGetPublicKey
  \/ Return

SpecResolve == InitResolve /\ [][NextResolve]_vars

\* ================================================ the verification history
InitHistory ==
  /\ inflight = NoInflight
  /\ contextStore = EmptyStore(Urls)
  /\ keyStore = EmptyStore(KeyIds)
  /\ revokedStore = EmptyStore(VcIds)
  /\ navOnLine = "true"
  /\ fetchAvailable = TRUE
  /\ pc = "idle"
  /\ req = NoRequest
  /\ last = NoResult
  /\ cacheOp = NoCacheOp
  /\ revokedSets = NoRevokedSets
  /\ historyCtx \in {MountedHistory(PriorHistory(n)) : n \in PriorLengths}

\* const hydrated = await hydrateHistory()
HydrateRead ==
  /\ historyCtx.hydration = "pending"
  /\ \E readOk \in BOOLEAN :
       historyCtx' = [historyCtx EXCEPT !.hydration = "read",
                                        !.read = hydrateHistory(historyCtx.stored, readOk)]
  /\ UNCHANGED <<revokedSets, cacheOp, inflight, stores, runtime, pc, req, last>>

\* if (isMounted) setHistory(hydrated)
HydrateSet ==
  /\ historyCtx.hydration = "read"
  /\ historyCtx' = [historyCtx EXCEPT !.hydration = "done", !.history = historyCtx.read]
  /\ UNCHANGED <<revokedSets, cacheOp, inflight, stores, runtime, pc, req, last>>

\* handleScanPress with the camera permission granted:
\* scanLockRef.current = false; setScannerVisible(true)
HandleScanPress ==
  /\ historyCtx.focused
  /\ historyCtx' = [historyCtx EXCEPT !.scanLock = FALSE, !.isScannerVisible = TRUE]
  /\ UNCHANGED <<revokedSets, cacheOp, inflight, stores, runtime, pc, req, last>>

\* a render of the screen: <Modal visible={isScannerVisible}> mounts or
\* unmounts the CameraView
RenderScanner ==
  /\ historyCtx.camera # historyCtx.isScannerVisible
  /\ historyCtx' = [historyCtx EXCEPT !.camera = historyCtx.isScannerVisible]
  /\ UNCHANGED <<revokedSets, cacheOp, inflight, stores, runtime, pc, req, last>>

\* verifyPayload up to its first await: setVerifying(true), with the
\* addResult of the current render
StartVerify(ctx) ==
  [ctx EXCEPT !.verifying = TRUE, !.pending = Append(ctx.pending, ctx.history)]

\* verifyPayload's finally, then handleBarCodeScanned's finally:
\* setVerifying(false); scanLockRef.current = false
EndVerify(ctx, i) ==
  [ctx EXCEPT !.verifying = FALSE, !.pending = RemoveAt(ctx.pending, i),
              !.scanLock = FALSE]

\* handleBarCodeScanned with data: if (scanLockRef.current) return;
\* scanLockRef.current = true; setScannerVisible(false); verifyPayload(data)
HandleBarCodeScanned ==
  /\ historyCtx.camera
  /\ ~historyCtx.scanLock
  /\ Len(historyCtx.pending) < MaxVerifying
  /\ historyCtx.clock + Len(historyCtx.pending) < MaxResults
  /\ historyCtx' = StartVerify([historyCtx EXCEPT !.scanLock = TRUE,
                                                  !.isScannerVisible = FALSE])
  /\ UNCHANGED <<revokedSets, cacheOp, inflight, stores, runtime, pc, req, last>>

\* verifyPayload from its addResult to its end:
\* await addResult(enriched, {source, raw}): setHistory(updated), persistHistory(updated)
AddResult ==
  /\ \E i \in 1..Len(historyCtx.pending), writeOk \in BOOLEAN :
       LET now == historyCtx.clock + 1
           entry == StoredVerification(now, now, "scan")
           updated == addResult(historyCtx.pending[i], entry)
       IN historyCtx' = [EndVerify(historyCtx, i) EXCEPT
                           !.history = updated,
                           !.stored = persistHistory(historyCtx.stored, updated, writeOk),
                           !.clock = now,
                           !.lastCall = "addResult",
                           !.lastAdded = entry]
  /\ UNCHANGED <<revokedSets, cacheOp, inflight, stores, runtime, pc, req, last>>

\* clearHistory: setHistory([]), persistHistory([])
ClearHistory ==
  /\ \E writeOk \in BOOLEAN :
       historyCtx' = [historyCtx EXCEPT
                        !.history = <<>>,
                        !.stored = persistHistory(historyCtx.stored, <<>>, writeOk),
                        !.lastCall = "clearHistory"]
  /\ UNCHANGED <<revokedSets, cacheOp, inflight, stores, runtime, pc, req, last>>

NextHistory ==
  \/ HydrateRead
  \/ HydrateSet
  \/ HandleScanPress
  \/ RenderScanner
  \/ HandleBarCodeScanned
  \/ AddResult
  \/ ClearHistory

SpecHistory == InitHistory /\ [][NextHistory]_vars

----------------------------------------------------------------------------
\* ---- the scanner of the verify screen ----

\* the screen mounted with nothing stored
InitScan ==
  /\ Init
  /\ navOnLine = "true"
  /\ fetchAvailable = TRUE

\* verifyPayload failing with an unknown error: the catch shows the error
\* and adds no result
VerifyFailed ==
  /\ \E i \in 1..Len(historyCtx.pending) :
       historyCtx' = EndVerify(historyCtx, i)
  /\ UNCHANGED <<revokedSets, cacheOp, inflight, stores, runtime, pc, req, last>>

\* the Close Scanner button and onRequestClose of the Modal
CloseScanner ==
  /\ historyCtx.camera
  /\ historyCtx.isScannerVisible
  /\ historyCtx' = [historyCtx EXCEPT !.isScannerVisible = FALSE]
  /\ UNCHANGED <<revokedSets, cacheOp, inflight, stores, runtime, pc, req, last>>

\* useFocusEffect, the screen gains the focus: scanLockRef.current = false
ScreenFocus ==
  /\ ~historyCtx.focused
  /\ historyCtx' = [historyCtx EXCEPT !.focused = TRUE, !.scanLock = FALSE]
  /\ UNCHANGED <<revokedSets, cacheOp, inflight, stores, runtime, pc, req, last>>

\* useFocusEffect's cleanup, the screen loses the focus:
\* scanLockRef.current = false; setScannerVisible(false)
ScreenBlur ==
  /\ historyCtx.focused
  /\ historyCtx' = [historyCtx EXCEPT !.focused = FALSE, !.scanLock = FALSE,
                                      !.isScannerVisible = FALSE]
  /\ UNCHANGED <<revokedSets, cacheOp, inflight, stores, runtime, pc, req, last>>

NextScan ==
  \/ HydrateRead
  \/ HydrateSet
  \/ HandleScanPress
  \/ RenderScanner
  \/ HandleBarCodeScanned
  \/ AddResult
  \/ VerifyFailed
  \/ CloseScanner
  \/ ScreenFocus
  \/ ScreenBlur

SpecScan == InitScan /\ [][NextScan]_vars

\* ==================================== revocation lists of several tenants
\* putRevokedVCs and replaceRevokedVCsForOrganization on a table that two
\* organizations revoke credentials in; revokedSets remembers, for each
\* organization, the revocation set most recently supplied for it.
\* revocations of the same credential by two organizations
SharedRevoked ==
  {RevokedInput("vc-1", "did:web:issuer.example", "org-1"),
   RevokedInput("vc-1", "did:web:issuer.example", "org-2"),
   RevokedInput("vc-2", "did:web:issuer.example", "org-2")}

SharedRevokedBatches == SeqsUpTo(SharedRevoked, MaxBatch)

\* the ids of the records of a batch that name the organization
RevokedIdsOf(vcs, organizationId) ==
  {vcs[i].vc_id : i \in {j \in 1..Len(vcs) : vcs[j].organization_id = organizationId}}

InitRevoked ==
  /\ Init
  /\ navOnLine = "true"
  /\ fetchAvailable = TRUE

\* putRevokedVCs(vcs): an upsert adds to the set of each organization named
RevokedPut(vcs, io) ==
  /\ LET r == putRevokedVCs(revokedStore, vcs, io)
     IN  /\ revokedStore' = r.table
         /\ cacheOp' = CacheOp("put", "revoked", JsNull, RevokedIdsPut(vcs),
                               Stored(RevokedIdsPut(vcs), r, io),
                               Overwrote(Stored(RevokedIdsPut(vcs), r, io), revokedStore, r.table),
                               r.threw, io)
  /\ revokedSets' = [o \in Orgs |-> revokedSets[o] \cup RevokedIdsOf(vcs, o)]
  /\ UNCHANGED <<historyCtx, contextStore, keyStore, runtime, pc, req, last, inflight>>

\* replaceRevokedVCsForOrganization(organizationId, vcs): the set of the
\* organization becomes the ids supplied
RevokedReplace(organizationId, vcs, io) ==
  /\ LET r == replaceRevokedVCsForOrganization(revokedStore, organizationId, vcs, io)
     IN  /\ revokedStore' = r.table
         /\ cacheOp' = CacheOp("replace", "revoked", organizationId, RevokedIdsReplace(vcs),
                               Stored(RevokedIdsReplace(vcs), r, io),
                               Overwrote(Stored(RevokedIdsReplace(vcs), r, io), revokedStore, r.table),
                               r.threw, io)
  /\ revokedSets' = [revokedSets EXCEPT ![organizationId] = RevokedIdsReplace(vcs)]
  /\ UNCHANGED <<historyCtx, contextStore, keyStore, runtime, pc, req, last, inflight>>

NextRevoked ==
  \/ \E vcs \in SharedRevokedBatches, io \in IoModes : RevokedPut(vcs, io)
  \/ \E o \in Orgs, vcs \in SharedRevokedBatches, io \in IoModes : RevokedReplace(o, vcs, io)

SpecRevoked == InitRevoked /\ [][NextRevoked]_vars

\* ======================================= put calls with invalid records
\* putPublicKeys and putRevokedVCs given batches in which a record lacks a
\* required field.
KeyNoController == [KeyDidKey1 EXCEPT !.controller = NoVm]

KeyNoId == [KeyWeb1 EXCEPT !.key_id = NoVm]

RevokedNoIssuer == RevokedInput("vc-2", Undef, "org-2")

RevokedNoId == RevokedInput(Undef, "did:web:issuer.example", "org-1")

ValidateKeyBatches == SeqsUpTo({KeyWeb1, KeyWebInactiveBare, KeyNoController, KeyNoId}, MaxBatch)

ValidateRevokedBatches ==
  SeqsUpTo({RevokedInput("vc-1", "did:web:issuer.example", "org-1"),
            RevokedNoIssuer, RevokedNoId}, MaxBatch)

InitValidate ==
  /\ Init
  /\ navOnLine = "true"
  /\ fetchAvailable = TRUE

NextValidate ==
  \/ \E ks \in ValidateKeyBatches, io \in IoModes : CachePutPublicKeys(ks, io)
  \/ \E vcs \in ValidateRevokedBatches, io \in IoModes : CachePutRevokedVCs(vcs, io)

SpecValidate == InitValidate /\ [][NextValidate]_vars

\* ================================================================== claims
\* the step in which a pending verify / getPublicKey call runs
VerifyStep == pc = "pending" /\ req.op = "verify" /\ pc' = "done"

GetPublicKeyStep == pc = "pending" /\ req.op = "getPublicKey" /\ pc' = "done"

VerifyDone == pc = "done" /\ last.op = "verify"

\* connectivity as the claims speak of it
ExplicitlyOffline == navOnLine = "false"

NetworkPermitted == fetchAvailable /\ navOnLine # "false"

SupportedType(type) == type \in {"Ed25519Signature2020", "Ed25519Signature2018"}

\* proof i of the credential in flight, verified on its own against the
\* tables as they are before the call
ProofAlone(i) ==
  verifySingleProof(contextStore, keyStore, req.cred, req.cred.proofs[i],
                    navOnLine, fetchAvailable, req.env).res

AllProofsAlone == \A i \in 1..Len(req.cred.proofs) : ProofAlone(i) = "true"

\* C1 (as stated): for a credential whose proof field normalizes to N proofs,
\* verify returns true if and only if each of the N proofs verifies on its own.
C1_TrueIffAllProofsVerify ==
  [][(VerifyStep /\ req.cred.json = "ok" /\ req.cred.proofKind # "absent")
       => (last'.outcome = "true" <=> AllProofsAlone)]_vars

\* C1 (amended): for a credential whose proof field normalizes to N >= 1
\* proofs, verify returns true if and only if each of the N proofs verifies on
\* its own.
C1_TrueIffAllOfAtLeastOneProofVerify ==
  [][(VerifyStep /\ req.cred.json = "ok" /\ req.cred.proofKind # "absent"
        /\ Len(req.cred.proofs) >= 1)
       => (last'.outcome = "true" <=> AllProofsAlone)]_vars

\* two proofs with different verification methods were dispatched and verify
\* returned true
C1_Witness ==
  /\ VerifyDone /\ last.outcome = "true" /\ Len(last.steps) = 2
  /\ req.cred.proofs[1].verificationMethod # req.cred.proofs[2].verificationMethod

\* C2: a credential whose proof is the empty array never makes verify return true.
C2_EmptyProofArrayNeverTrue ==
  [][(VerifyStep /\ req.cred.json = "ok" /\ req.cred.proofKind = "array"
        /\ Len(req.cred.proofs) = 0)
       => last'.outcome # "true"]_vars

\* C3: for a cached record with is_active = false, getPublicKey returns null,
\* invokes no online getter and does not leave the record active.
C3_InactiveKeyNeverUsable ==
  [][(GetPublicKeyStep /\ keyStore[req.vm] # NoRec /\ keyStore[req.vm].is_active = "false")
       => /\ last'.key = NoRec
          /\ ~last'.fetched
          /\ (keyStore'[req.vm] = NoRec \/ keyStore'[req.vm].is_active # "true")]_vars

\* C4: explicitly offline with an @context url absent from the context cache,
\* verify ends with OFFLINE_DEPENDENCIES_MISSING whatever the proofs and keys.
C4_OfflineMissingContext ==
  [][(VerifyStep /\ req.cred.json = "ok" /\ ExplicitlyOffline
        /\ \E i \in 1..Len(req.cred.context) : contextStore[req.cred.context[i]] = NoRec)
       => last'.outcome = "OFFLINE"]_vars

\* offline, one context cached and one missing, the key of a good proof
\* cached: the call ended in the preflight with OFFLINE_DEPENDENCIES_MISSING
C4_Witness ==
  /\ VerifyDone /\ last.outcome = "OFFLINE" /\ last.path = "preflight"
  /\ ExplicitlyOffline
  /\ contextStore["https://ctx/1"] # NoRec /\ contextStore["https://ctx/2"] = NoRec
  /\ req.cred.proofs = <<MkProof("Ed25519Signature2020", VmWeb, 1)>>
  /\ keyStore[VmWeb] # NoRec /\ keyStore[VmWeb].public_key_multibase = "z6Mk1"
  /\ keyStore[VmWeb].is_active = "true"

\* C5: a dispatched proof of a supported type whose key cannot be resolved
\* raises OFFLINE_DEPENDENCIES_MISSING when explicitly offline and yields
\* false, raising nothing, when network requests are permitted.
C5_UnresolvedKeyByConnectivity ==
  [][VerifyStep
       => \A i \in 1..Len(last'.steps) :
            (SupportedType(req.cred.proofs[i].type) /\ ~last'.steps[i].keyResolved)
              => /\ ExplicitlyOffline
                      => last'.steps[i].res = "OFFLINE" /\ last'.outcome = "OFFLINE"
                 /\ NetworkPermitted
                      => last'.steps[i].res = "false" /\ last'.outcome = "false"]_vars

\* offline with every context cached and no key for the proof: the proof
\* asked for its key, got none, and the call raised OFFLINE_DEPENDENCIES_MISSING
C5_Witness ==
  /\ VerifyDone /\ ExplicitlyOffline /\ last.outcome = "OFFLINE"
  /\ last.path = "proof-offline" /\ Len(last.steps) = 1
  /\ last.steps[1].keyLookup /\ ~last.steps[1].keyResolved
  /\ keyStore[req.cred.proofs[1].verificationMethod] = NoRec

\* C6: once getPublicKey has returned a key obtained through the online
\* fallback, a later getPublicKey for the same identifier, explicitly offline,
\* returns a key without looking online.
C6_FetchedKeyServedOffline ==
  [][(GetPublicKeyStep /\ last'.fetched /\ last'.key # NoRec)
       => \A net \in NetChoices :
            LET later == getPublicKey(keyStore', req.vm, "false", fetchAvailable, net, IoOk)
            IN  later.key # NoRec /\ ~later.lookedOnline]_vars

\* tables as they are before proof i of a verify call is dispatched
ContextsBefore(i) == IF i = 1 THEN contextStore ELSE last'.steps[i - 1].contexts

KeysBefore(i) == IF i = 1 THEN keyStore ELSE last'.steps[i - 1].keys

\* C7: a dispatched proof whose type is not an Ed25519 suite is false for the
\* proof and for the credential, raises nothing, resolves no key and writes
\* no cache table.
C7_UnsupportedTypeIsFalse ==
  [][VerifyStep
       => \A i \in 1..Len(last'.steps) :
            ~SupportedType(req.cred.proofs[i].type)
              => /\ last'.steps[i].res = "false"
                 /\ last'.outcome = "false"
                 /\ ~last'.steps[i].keyLookup
                 /\ ~last'.steps[i].keyFetched
                 /\ last'.steps[i].keyPuts = 0
                 /\ ~last'.steps[i].ctxFetched
                 /\ last'.steps[i].contexts = ContextsBefore(i)
                 /\ last'.steps[i].keys = KeysBefore(i)]_vars

\* an RsaSignature2018 proof was dispatched after a proof that verified, and
\* the call returned false
C7_Witness ==
  /\ VerifyDone /\ last.outcome = "false" /\ Len(last.steps) = 2
  /\ req.cred.proofs[2].type = "RsaSignature2018"
  /\ last.steps[1].res = "true" /\ ~last.steps[2].keyLookup

\* C8: a parsed credential without a proof field makes verify return false,
\* provided the offline preflight did not fail.
C8_NoProofIsFalse ==
  [][(VerifyStep /\ req.cred.json = "ok" /\ req.cred.proofKind = "absent"
        /\ ~(ExplicitlyOffline /\ PreflightFails(contextStore, req.cred, req.env.io)))
       => last'.outcome = "false"]_vars

\* offline with every context cached, a credential without proof returned false
C8_Witness ==
  /\ VerifyDone /\ req.cred.proofKind = "absent" /\ req.cred.json = "ok"
  /\ ExplicitlyOffline /\ last.outcome = "false" /\ last.path = "no-proof"

NoProofKeyLacksMultibase ==
  \A i \in 1..Len(req.cred.proofs) :
    LET rec == keyStore[req.cred.proofs[i].verificationMethod]
    IN  rec = NoRec \/ ~Falsy(rec.public_key_multibase)

TableOf(op) ==
  CASE op.table = "contexts" -> contextStore
    [] op.table = "keys" -> keyStore
    [] OTHER -> revokedStore

TableAfter(op) ==
  CASE op.table = "contexts" -> contextStore'
    [] op.table = "keys" -> keyStore'
    [] OTHER -> revokedStore'

\* a replace*ForOrganization directly follows one on the same table and organization
ReplaceAfterReplace ==
  /\ cacheOp.op = "replace"
  /\ cacheOp'.op = "replace"
  /\ cacheOp'.table = cacheOp.table
  /\ cacheOp'.organizationId = cacheOp.organizationId

\* C10: replace*ForOrganization(org, S1) directly followed by
\* replace*ForOrganization(org, S2) on the same table, the storage reads and
\* writes of both succeeding: no record the first call inserted and S2 does
\* not hold is left in the table.
C10_ReplaceFullySupersedes ==
  [][(ReplaceAfterReplace /\ cacheOp.io = IoOk /\ cacheOp'.io = IoOk)
       => \A id \in cacheOp.inserted \ cacheOp'.supplied : TableAfter(cacheOp')[id] = NoRec]_vars

\* the clock reading of a call made after the calls of a run
LaterNow == CHOOSE t \in Times : t # PipelineNow

\* the context table without its cachedAt timestamps
StripCachedAt(table) ==
  [id \in DOMAIN table |->
     IF table[id] = NoRec THEN NoRec ELSE [table[id] EXCEPT !.cachedAt = 0]]

\* C11: for each of the three tables, every organization id, record batch and
\* storage behaviour, a replace*ForOrganization call repeated at once with the
\* same arguments leaves the table as the first call left it, the cachedAt
\* timestamps of the context table aside.
C11_ReplaceIsIdempotent ==
  [][cacheOp'.op = "replace"
       => /\ cacheOp'.table = "contexts"
               => \A cs \in ContextBatches :
                    CacheReplaceContexts(cacheOp'.organizationId, cs, cacheOp'.io)
                      => StripCachedAt(replaceContextsForOrganization(
                                         contextStore', cacheOp'.organizationId, cs,
                                         LaterNow, cacheOp'.io).table)
                           = StripCachedAt(contextStore')
          /\ cacheOp'.table = "keys"
               => \A ks \in TableKeyBatches :
                    CacheReplacePublicKeys(cacheOp'.organizationId, ks, cacheOp'.io)
                      => replacePublicKeysForOrganization(
                           keyStore', cacheOp'.organizationId, ks, cacheOp'.io).table
                           = keyStore'
          /\ cacheOp'.table = "revoked"
               => \A vcs \in RevokedBatches :
                    CacheReplaceRevokedVCs(cacheOp'.organizationId, vcs, cacheOp'.io)
                      => replaceRevokedVCsForOrganization(
                           revokedStore', cacheOp'.organizationId, vcs, cacheOp'.io).table
                           = revokedStore']_vars

\* a replace of the contexts of an organization stored one context while the
\* table also holds a context of another organization
C11_Witness ==
  /\ cacheOp.op = "replace" /\ cacheOp.table = "contexts" /\ cacheOp.io = IoOk
  /\ cacheOp.inserted = {"https://ctx/1"}
  /\ contextStore["https://ctx/1"].organization_id = cacheOp.organizationId
  /\ contextStore["https://ctx/2"] # NoRec
  /\ contextStore["https://ctx/2"].organization_id \in Orgs \ {cacheOp.organizationId}

\* the record of a batch that is the last one supplied for the key id
LastFor(ks, keyId) ==
  ks[CHOOSE i \in 1..Len(ks) :
       ks[i].key_id = keyId /\ \A j \in (i + 1)..Len(ks) : ks[j].key_id # keyId]

\* rec holds what the input b says and the defaults for what b omits
FromInputAlone(rec, b) ==
  /\ rec.key_id = b.key_id
  /\ rec.controller = SplitHash0(b.controller)
  /\ rec.public_key_multibase = b.public_key_multibase
  /\ rec.public_key_hex = b.public_key_hex
  /\ rec.public_key_jwk = b.public_key_jwk
  /\ rec.key_type = IF Nullish(b.key_type) THEN "Ed25519VerificationKey2020" ELSE b.key_type
  /\ rec.purpose = IF Nullish(b.purpose) THEN "assertion" ELSE b.purpose
  /\ rec.is_active = IF Nullish(b.is_active) THEN "true" ELSE b.is_active
  /\ rec.organization_id = IF Nullish(b.organization_id) THEN JsNull ELSE b.organization_id

RoundDone == ~AllIdle /\ \A t \in Tasks : inflight.task[t].phase \in {"idle", "done"}

\* task r performs its read in this step
ReadStep(r) ==
  /\ inflight.task[r].phase = "called" /\ inflight.task[r].call.op = "read"
  /\ inflight'.task[r].phase = "done"

\* task w runs a replace*ForOrganization that has not finished
ReplaceInProgress(w) ==
  inflight.task[w].call.op = "replace" /\ inflight.task[w].phase \in {"called", "loaded"}

\* C13: a getContext / getKeyById / isVCRevoked that runs while a
\* replace*ForOrganization of the same table is in progress returns what the
\* table held before the replace or what the completed replace leaves in it.
C13_ReplaceIsAtomicForReaders ==
  [][\A r \in Tasks, w \in Tasks :
       (ReadStep(r) /\ ReplaceInProgress(w))
         => \/ inflight'.task[r].seen
                 = ReadIn(cacheOp.table, inflight.task[r].call.id, inflight.base)
            \/ inflight'.task[r].seen
                 = ReadIn(cacheOp.table, inflight.task[r].call.id,
                          ApplyCall(cacheOp.table, inflight.task[w].call, inflight.base))]_vars

\* getContext returned the cached document while a replace that first deletes
\* this very context of the organization and then stores it again had read
\* the table and not yet written it
C13_Witness ==
  /\ cacheOp.table = "contexts"
  /\ \E r \in Tasks, w \in Tasks :
       /\ inflight.task[w].call = ConcCall("replace", "org-1", <<ContextDocB>>, "")
       /\ inflight.task[w].phase = "loaded"
       /\ inflight.base["https://ctx/1"] # NoRec
       /\ inflight.base["https://ctx/1"].organization_id = "org-1"
       /\ inflight.task[r].call.op = "read" /\ inflight.task[r].phase = "done"
       /\ inflight.task[r].call.id = "https://ctx/1"
       /\ inflight.task[r].seen = "doc-b"

\* C14: when the put / replace / clear calls issued concurrently on a table
\* have all returned, the table is what the same calls give when run one
\* after the other in some order.
C14_WritesAreSerialized ==
  (RoundDone /\ \A t \in Tasks : inflight.task[t].call.op \in {"none", "put", "replace", "clear"})
    => \E t \in Tasks, u \in Tasks :
         /\ t # u
         /\ FocusTable = ApplyCall(cacheOp.table, inflight.task[u].call,
                                   ApplyCall(cacheOp.table, inflight.task[t].call,
                                             inflight.base))

\* both tasks ran getPublicKey for the same key and each made the setItem of
\* its backfill
BothBackfilled ==
  /\ cacheOp.table = "keys"
  /\ RoundDone
  /\ \A t \in Tasks : /\ inflight.task[t].call.op = "getPublicKey"
                        /\ inflight.task[t].call.id = VmWeb
                        /\ inflight.task[t].wrote

\* C15: after two concurrent getPublicKey calls for the same key have both
\* persisted a derived multibase, the stored record of the key is the one a
\* single getPublicKey leaves, under every interleaving.
C15_ConcurrentBackfillsConverge ==
  BothBackfilled
    => keyStore[VmWeb]
         = ApplyCall("keys", ConcCall("getPublicKey", JsNull, <<>>, VmWeb), inflight.base)[VmWeb]

\* both backfills were written and the record now carries the multibase
\* derived from its JWK
C15_Witness ==
  /\ BothBackfilled
  /\ inflight.base[VmWeb].public_key_multibase = Undef
  /\ inflight.base[VmWeb].public_key_jwk = JwkEd1
  /\ keyStore[VmWeb].public_key_multibase = "z6Mk1"

\* the call of this step got as far as its writeJson and the setItem failed
WriteFailed ==
  /\ cacheOp'.op \in {"put", "replace"}
  /\ ~cacheOp'.io.writeOk
  /\ cacheOp'.op = "put" => cacheOp'.supplied # {}

\* C16: a put* or replace*ForOrganization call whose backing-store write
\* fails rejects, so that its caller learns the records were not stored.
C16_FailedWriteIsReported ==
  [][WriteFailed => cacheOp'.threw]_vars

\* the DID document of a did:web method was asked for and the fetch failed
OnlineFetchFailed ==
  last'.fetched /\ StartsWith(req.vm, "did:web") /\ req.env.net.state = "unreachable"

\* the read of the key table failed
CacheReadFailed == ~req.env.io.readOk

\* C17: a getPublicKey call during which the cache read or the online
\* resolution met an I/O error does not return null.
C17_IoErrorIsNotNull ==
  [][(GetPublicKeyStep /\ (OnlineFetchFailed \/ CacheReadFailed))
       => last'.outcome # "null"]_vars

\* the step is a getPublicKey, on its own or within a verify, that made the
\* putPublicKeys of a derived multibase for the cached record of keyId and
\* did not go online for it
Backfilled(keyId) ==
  /\ keyStore[keyId] # NoRec
  /\ \/ GetPublicKeyStep /\ req.vm = keyId /\ ~last'.fetched /\ last'.puts = 1
     \/ /\ VerifyStep
        /\ \E i \in 1..Len(last'.steps) :
             req.cred.proofs[i].verificationMethod = keyId /\ last'.steps[i].keyPuts = 1
        /\ \A i \in 1..Len(last'.steps) :
             req.cred.proofs[i].verificationMethod = keyId => ~last'.steps[i].keyFetched

\* C18: when getPublicKey persists a derived public_key_multibase for a
\* cached record, the stored record differs from the one before in that field
\* only.
C18_BackfillKeepsOtherFields ==
  [][\A keyId \in KeyIds :
       Backfilled(keyId)
         => keyStore'[keyId]
              = [keyStore[keyId] EXCEPT
                   !.public_key_multibase = keyStore'[keyId].public_key_multibase]]_vars

\* getPublicKey returned the key of an organization's record cached with a
\* JWK only, having stored the multibase derived from it without going online
C18_Witness ==
  /\ pc = "done" /\ last.op = "getPublicKey" /\ last.puts = 1 /\ ~last.fetched
  /\ last.key # NoRec
  /\ keyStore[req.vm].public_key_multibase = "z6Mk1"
  /\ keyStore[req.vm].public_key_jwk = JwkEd1
  /\ keyStore[req.vm].organization_id = "org-1"

\* C19: when documentLoader finds no cached document for a context url, it
\* throws OFFLINE_DEPENDENCIES_MISSING if network access is not permitted; when
\* the fetch it issued fails, it throws OFFLINE_DEPENDENCIES_MISSING if
\* navigator.onLine is false at that moment and the fetch error otherwise.
CacheMiss ==
  /\ req.url \notin DidUrls
  /\ Falsy(getContext(contextStore, req.url, req.env.io))

C19_MissIsClassifiedByConnectivity ==
  [][/\ (LoaderLookupStep /\ CacheMiss
           /\ ~canPerformNetworkRequest(navOnLine, fetchAvailable))
          => /\ pc' = "done"
             /\ last'.outcome = "offline-missing"
             /\ ~last'.fetched
     /\ (LoaderFetchStep /\ req.env.body = "fail")
          => last'.outcome = IF navOnLine = "false" THEN "offline-missing" ELSE "error"]_vars

\* the fetch was permitted, failed, and the runtime had gone offline meanwhile
C19_Witness ==
  /\ pc = "done"
  /\ last.op = "documentLoader"
  /\ last.outcome = "offline-missing"
  /\ last.fetched
  /\ navOnLine = "false"

\* C20: when getContext finds a document under the requested url, documentLoader
\* returns that document at once, whatever navigator.onLine and the fetch
\* capability are, without a fetch and without a write to the context table.
CacheHit ==
  /\ req.url \notin DidUrls
  /\ ~Falsy(getContext(contextStore, req.url, req.env.io))

C20_LoaderIsCacheFirst ==
  [][(LoaderLookupStep /\ CacheHit)
       => /\ pc' = "done"
          /\ last'.outcome = "ok"
          /\ last'.document = getContext(contextStore, req.url, req.env.io)
          /\ ~last'.fetched
          /\ contextStore' = contextStore]_vars

\* a cached document was returned although the network was permitted and
\* serves a different document
C20_Witness ==
  /\ pc = "done"
  /\ last.op = "documentLoader"
  /\ last.outcome = "ok"
  /\ ~last.fetched
  /\ canPerformNetworkRequest(navOnLine, fetchAvailable)
  /\ req.env.body \notin {"fail", last.document}

\* C21: after documentLoader fetched an uncached context successfully, the
\* context table holds under the requested url a record whose document is the
\* fetched body and whose source is "fetched".
C21_FetchedContextIsTaggedFetched ==
  [][(LoaderFetchStep /\ last'.outcome = "ok")
       => /\ contextStore'[req.url] # NoRec
          /\ contextStore'[req.url].document = req.env.body
          /\ contextStore'[req.url].source = "fetched"]_vars

RECURSIVE CarriesSentinel(_)
\* the sentinel is a word of the message of e or of an error nested in it
CarriesSentinel(e) ==
  /\ e # NoRec
  /\ \/ Includes(e.message, OFFLINE_DEPENDENCIES_MISSING)
     \/ \E i \in 1..Len(e.errors) : CarriesSentinel(e.errors[i])
     \/ \E i \in 1..Len(e.details) : CarriesSentinel(e.details[i])

\* C22: when the verification error jsigs.verify returned carries the sentinel
\* in its message or in a nested errors / details list, or the error it threw
\* has a message containing the sentinel, verifyWithSuite raises
\* OFFLINE_DEPENDENCIES_MISSING and does not return false.
C22_SentinelIsNeverSwallowed ==
  [][(/\ RunSuite
      /\ \/ req.env.jsigs.kind = "failed" /\ CarriesSentinel(req.env.jsigs.error)
         \/ /\ req.env.jsigs.kind = "threw"
            /\ req.env.jsigs.error # NoRec
            /\ Includes(req.env.jsigs.error.message, OFFLINE_DEPENDENCIES_MISSING))
       => last'.outcome = "OFFLINE"]_vars

\* the step r of a proof has a cause for which verifyWithSuite raises
\* OFFLINE_DEPENDENCIES_MISSING: no key while explicitly offline, or a context
\* that is not cached while network requests are not permitted
OfflineCause(r) ==
  \/ r.keyLookup /\ ~r.keyResolved /\ ExplicitlyOffline
  \/ r.keyResolved /\ ~NetworkPermitted

\* C23: a dispatched proof ends in true, in false or in
\* OFFLINE_DEPENDENCIES_MISSING and in nothing else; it raises
\* OFFLINE_DEPENDENCIES_MISSING only for a missing offline dependency, and every
\* other failure (key not resolved, key not constructible, context fetch
\* failed, signature mismatch) is the value false for the proof and for verify.
C23_OnlyOfflinePropagates ==
  [][VerifyStep
       => \A i \in 1..Len(last'.steps) :
            /\ last'.steps[i].res \in {"true", "false", "OFFLINE"}
            /\ last'.steps[i].res = "OFFLINE" => OfflineCause(last'.steps[i])
            /\ (last'.steps[i].res # "true" /\ ~OfflineCause(last'.steps[i]))
                 => last'.steps[i].res = "false" /\ last'.outcome = "false"]_vars

\* online, a key was resolved for the proof but it holds no multibase, so no
\* key pair can be built from it: the error of VerificationKey.from became false
C23_Witness ==
  /\ VerifyDone /\ NetworkPermitted /\ last.outcome = "false"
  /\ Len(last.steps) = 1
  /\ last.steps[1].res = "false" /\ last.steps[1].keyResolved /\ ~last.steps[1].ctxFetched
  /\ keyStore[req.cred.proofs[1].verificationMethod] # NoRec
  /\ Falsy(keyStore[req.cred.proofs[1].verificationMethod].public_key_multibase)

\* C24: verify ends in true, in false, in an error carrying
\* OFFLINE_DEPENDENCIES_MISSING or in UnknownException and in nothing else; a
\* string that is not JSON and a null proof entry end in UnknownException
\* (the null entry unless the offline preflight raised first).
C24_OutcomesAreClosed ==
  [][VerifyStep
       => /\ last'.outcome \in {"true", "false", "OFFLINE", "UNKNOWN"}
          /\ req.cred.json # "ok" => last'.outcome = "UNKNOWN"
          /\ (/\ req.cred.json = "ok" /\ req.cred.proofKind = "malformed"
              /\ ~(ExplicitlyOffline
                     /\ PreflightFails(contextStore, req.cred, req.env.io)))
               => last'.outcome = "UNKNOWN"
          /\ last'.outcome = "UNKNOWN"
               => req.cred.json # "ok" \/ req.cred.proofKind = "malformed"]_vars

\* explicitly offline with every context cached, a credential whose proof
\* array holds null ended in UnknownException
C24_Witness ==
  /\ VerifyDone /\ ExplicitlyOffline
  /\ req.cred.json = "ok" /\ req.cred.proofKind = "malformed"
  /\ last.outcome = "UNKNOWN" /\ last.path = "proof-malformed"

\* C25: with navigator.onLine absent and fetch available, network requests
\* are permitted and the runtime is not explicitly offline; with
\* navigator.onLine false the runtime is explicitly offline and network
\* requests are not permitted; isExplicitlyOffline() and
\* canPerformNetworkRequest() are never both true.
C25_ConnectivityIsConsistent ==
  /\ (navOnLine = Undef /\ fetchAvailable)
       => /\ canPerformNetworkRequest(navOnLine, fetchAvailable)
          /\ ~isExplicitlyOffline(navOnLine)
  /\ navOnLine = "false"
       => /\ isExplicitlyOffline(navOnLine)
          /\ ~canPerformNetworkRequest(navOnLine, fetchAvailable)
  /\ ~(isExplicitlyOffline(navOnLine) /\ canPerformNetworkRequest(navOnLine, fetchAvailable))

\* navigator.onLine is absent and documentLoader fetched a context
C25_Witness ==
  /\ navOnLine = Undef /\ fetchAvailable
  /\ pc = "done" /\ last.op = "documentLoader" /\ last.outcome = "ok" /\ last.fetched

\* C26: for the verification-method entry matched by id, DidWebPublicKeyGetter.get
\* returns what the PEM gives when a PEM is present; else what the multibase
\* gives when one is present; else what the JWK gives; else what the hex
\* gives; with none of the four it throws.
C26_DidWebExtractionPriority ==
  [][(RunGetter /\ req.env.net.state = "found")
       => LET e == req.env.net
              none == Undef
              pem == IF Falsy(e.publicKeyPem) THEN none ELSE e.publicKeyPem
              mb == IF Falsy(e.publicKeyMultibase) THEN none ELSE e.publicKeyMultibase
              hex == IF Falsy(e.publicKeyHex) THEN none ELSE e.publicKeyHex
          IN  /\ pem # none => last'.key = getPublicKeyFromPem(pem, e.type)
              /\ (pem = none /\ mb # none)
                   => last'.key = getPublicKeyFromMultibaseEd25519(mb, e.type)
              /\ (pem = none /\ mb = none /\ e.publicKeyJwk # NoJwk)
                   => last'.key = getPublicKeyFromJwk(e.publicKeyJwk, e.type)
              /\ (pem = none /\ mb = none /\ e.publicKeyJwk = NoJwk /\ hex # none)
                   => last'.key = getPublicKeyFromHex(hex, e.type)
              /\ (pem = none /\ mb = none /\ e.publicKeyJwk = NoJwk /\ hex = none)
                   => last'.outcome = "threw"]_vars

\* the entry carried all four encodings and the key came from the PEM
C26_Witness ==
  /\ pc = "done" /\ last.op = "DidWebPublicKeyGetter.get" /\ last.outcome = "key"
  /\ ~Falsy(req.env.net.publicKeyMultibase) /\ req.env.net.publicKeyJwk # NoJwk
  /\ ~Falsy(req.env.net.publicKeyHex)
  /\ last.key.pem = req.env.net.publicKeyPem /\ last.key.algorithm = "RSA"

\* C27: when getPublicKey resolves online an identifier whose scheme is none
\* of did:web, did:key, did:jwk and https, no getter is invoked, the key table
\* is left as it was and no key is returned.
C27_OtherSchemeIsUnsupported ==
  [][(/\ GetPublicKeyStep
      /\ req.vm.scheme \notin {"did:web", "did:key", "did:jwk", "https"}
      /\ isIncomplete(getKeyById(keyStore, req.vm, req.env.io))
      /\ NetworkPermitted)
       => /\ ~last'.fetched
          /\ last'.puts = 0
          /\ keyStore' = keyStore
          /\ last'.key = NoRec]_vars

\* the history is ordered newest first
NewestFirst(h) == \A i \in 1..Len(h) - 1 : h[i].timestamp > h[i + 1].timestamp

\* the history stays within its cap and in order
HistoryInShape ==
  /\ Len(historyCtx.history) <= HistoryCap
  /\ NewestFirst(historyCtx.history)

\* C28: after any sequence of addResult and clearHistory calls the history
\* holds at most 100 entries, ordered newest first, and once addResult was
\* the last call to return, the result it added is at the head.
C28_HistoryHoldsLatestResults ==
  /\ HistoryInShape
  /\ historyCtx.lastCall = "addResult" =>
       /\ historyCtx.history # <<>>
       /\ Head(historyCtx.history) = historyCtx.lastAdded

\* some @context url of the credential in flight has no record in the cache
ContextMissing ==
  \E i \in 1..Len(req.cred.context) : contextStore[req.cred.context[i]] = NoRec

\* C29: explicitly offline with an @context url missing from the cache, verify
\* of a parsed credential raises OFFLINE_DEPENDENCIES_MISSING in the preflight:
\* whatever the proof field holds, no proof is dispatched, no key is looked up
\* or resolved, and no cache table is written.
C29_PreflightPrecedesProofs ==
  [][(VerifyStep /\ req.cred.json = "ok" /\ ExplicitlyOffline /\ ContextMissing)
       => /\ last'.outcome = "OFFLINE"
          /\ last'.path = "preflight"
          /\ last'.steps = <<>>
          /\ stores' = stores]_vars

\* offline with a context missing, a credential without a proof field ended
\* in OFFLINE_DEPENDENCIES_MISSING, not in false
C29_Witness ==
  /\ VerifyDone /\ ExplicitlyOffline /\ ContextMissing
  /\ req.cred.json = "ok" /\ req.cred.proofKind = "absent"
  /\ last.outcome = "OFFLINE" /\ last.path = "preflight" /\ last.steps = <<>>

\* C30: the proofs are dispatched in document order, each on the tables the
\* previous one left; every dispatched proof but the last verified; a proof
\* that returned false or raised is the last one dispatched, it decides the
\* outcome of verify, and the cache tables after the call are the tables as
\* that proof left them.
C30_FirstFailureEndsVerification ==
  [][VerifyStep
       => /\ Len(last'.steps) <= Len(req.cred.proofs)
          /\ \A i \in 1..Len(last'.steps) :
               /\ last'.steps[i] = verifySingleProof(ContextsBefore(i), KeysBefore(i),
                                                     req.cred, req.cred.proofs[i],
                                                     navOnLine, fetchAvailable, req.env)
               /\ i < Len(last'.steps) => last'.steps[i].res = "true"
               /\ last'.steps[i].res # "true"
                    => /\ i = Len(last'.steps)
                       /\ last'.outcome =
                            (IF last'.steps[i].res = "false" THEN "false" ELSE "OFFLINE")
                       /\ contextStore' = last'.steps[i].contexts
                       /\ keyStore' = last'.steps[i].keys]_vars

\* with network requests permitted, the first of two proofs of supported
\* types was dispatched and returned false; the second, whose key is not in
\* the cache, was not dispatched and its key is still not in the cache
C30_Witness ==
  /\ VerifyDone /\ NetworkPermitted /\ last.outcome = "false"
  /\ Len(req.cred.proofs) = 2 /\ Len(last.steps) = 1
  /\ last.steps[1].res = "false" /\ last.steps[1].keyLookup
  /\ SupportedType(req.cred.proofs[2].type)
  /\ req.cred.proofs[2].verificationMethod # req.cred.proofs[1].verificationMethod
  /\ keyStore[req.cred.proofs[2].verificationMethod] = NoRec

\* C31: a key view returned by getPublicKey carries at least one of
\* publicKeyMultibase, publicKeyJwk and publicKeyHex.
C31_ReturnedKeyCarriesMaterial ==
  [][(GetPublicKeyStep /\ last'.key # NoRec)
       => \/ ~Falsy(last'.key.publicKeyMultibase)
          \/ last'.key.publicKeyJwk # NoJwk
          \/ ~Falsy(last'.key.publicKeyHex)]_vars

\* C32: after putContexts, putPublicKeys or putRevokedVCs, every record whose
\* id is not in the supplied batch is stored as it was before the call,
\* whether the storage read of the call succeeded or failed.
C32_PutTouchesOnlySuppliedIds ==
  [][cacheOp'.op = "put"
       => \A id \in DOMAIN TableOf(cacheOp') \ cacheOp'.supplied :
            TableAfter(cacheOp')[id] = TableOf(cacheOp')[id]]_vars

\* C33: after replace*ForOrganization(orgA, records), every record that was
\* stored with an organization_id other than orgA, null included, is stored
\* as it was before the call.
C33_ReplaceLeavesOtherTenants ==
  [][cacheOp'.op = "replace"
       => \A id \in DOMAIN TableOf(cacheOp') :
            (/\ TableOf(cacheOp')[id] # NoRec
             /\ TableOf(cacheOp')[id].organization_id # cacheOp'.organizationId)
              => TableAfter(cacheOp')[id] = TableOf(cacheOp')[id]]_vars

\* C34: after any sequence of putRevokedVCs and
\* replaceRevokedVCsForOrganization calls, isVCRevoked(id) is true for every
\* id in the revocation set most recently supplied for some organization.
C34_RevocationIsNeverLost ==
  \A o \in Orgs : \A id \in revokedSets[o] : isVCRevoked(revokedStore, id, IoOk)

\* some record of the batch lacks key_id or controller
SomeKeyInvalid(ks) == \E i \in 1..Len(ks) : KeyInvalid(ks[i])

\* some record of the batch lacks vc_id or issuer
SomeRevokedInvalid(vcs) == \E i \in 1..Len(vcs) : RevokedInvalid(vcs[i])

\* C35: a putPublicKeys or putRevokedVCs call given a batch in which some
\* record lacks a required field raises, and the persisted table after the
\* call is the table before it, wherever in the batch the invalid record is.
C35_InvalidBatchStoresNothing ==
  [][cacheOp'.op = "put"
       => /\ \A ks \in ValidateKeyBatches :
               (SomeKeyInvalid(ks) /\ CachePutPublicKeys(ks, cacheOp'.io))
                 => cacheOp'.threw /\ keyStore' = keyStore
          /\ \A vcs \in ValidateRevokedBatches :
               (SomeRevokedInvalid(vcs) /\ CachePutRevokedVCs(vcs, cacheOp'.io))
                 => cacheOp'.threw /\ revokedStore' = revokedStore]_vars

\* a putPublicKeys call whose batch held a valid record and an invalid one
\* raised, and the valid record is not in the table
C35_Witness ==
  /\ cacheOp.op = "put" /\ cacheOp.table = "keys" /\ cacheOp.threw
  /\ cacheOp.io = IoOk
  /\ cacheOp.supplied = {VmWeb}
  /\ keyStore[VmWeb] = NoRec

\* task t, a getPublicKey, makes the setItem of its backfill in this step
BackfillSaveStep(t) ==
  /\ inflight.task[t].call.op = "getPublicKey"
  /\ inflight.task[t].phase = "loaded"
  /\ inflight'.task[t].phase = "done"

\* task u ran a clearPublicKeyStore, or a replacePublicKeysForOrganization
\* for the organization of the record without supplying its id, and has
\* written the table
DeletedRecordOf(u, record) ==
  /\ inflight.task[u].phase = "done" /\ inflight.task[u].wrote
  /\ \/ inflight.task[u].call.op = "clear"
     \/ /\ inflight.task[u].call.op = "replace"
        /\ Coalesce(record.organization_id, JsNull) = inflight.task[u].call.organizationId
        /\ record.key_id \notin KeyIdsOf(inflight.task[u].call.batch)

\* C36: when a clearPublicKeyStore or replacePublicKeysForOrganization that
\* deletes the record getPublicKey has read completes before getPublicKey
\* writes its backfill, the key table after that write holds no record for
\* the key.
C36_BackfillKeepsConcurrentDelete ==
  [][\A t \in Tasks, u \in Tasks :
       (t # u /\ cacheOp.table = "keys" /\ BackfillSaveStep(t)
          /\ DeletedRecordOf(u, inflight.task[t].record))
         => keyStore'[inflight.task[t].record.key_id] = NoRec]_vars

\* C37: the scan lock admits one scan-triggered verification at a time: no
\* second verifyPayload is in flight while an earlier one has not finished,
\* and the lock is free whenever no verification is in flight.
C37_ScanLockAdmitsOne ==
  /\ Len(historyCtx.pending) <= 1
  /\ historyCtx.pending = <<>> => ~historyCtx.scanLock

\* the results added since the application started that history h holds
AddedIn(h) == {h[i] : i \in {j \in 1..Len(h) : h[j].id > 0}}

\* C38: no verification result is lost from the history: an addResult that
\* completes, whatever other addResult calls it overlaps with, leaves in the
\* history every result added before it (the cap of 100 only drops older
\* entries), and leaves the persisted history equal to the in-memory one.
C38_NoResultIsLost ==
  [][historyCtx'.clock > historyCtx.clock =>
       /\ AddedIn(historyCtx.history) \subseteq AddedIn(historyCtx'.history)
       /\ historyCtx'.stored = historyCtx'.history]_vars

====
